---- MODULE Spec2Model ----
(***************************************************************************)
(* chs-xmit: the show runtime of the MIDI-driven light transmitter.        *)
(*                                                                         *)
(* The model covers the resolver (ShowState::new, create_mutable_state),   *)
(* the receiver-ownership bookkeeping (ReceiverState), activation and      *)
(* deactivation of effect and clip mappings, sustain buffering, the        *)
(* lights-out timer (tick) and the clip engine (clip.rs).                  *)
(*                                                                         *)
(* Time is in milliseconds, and every Instant is kept relative to the      *)
(* present: now is 0, an instant in the past is negative, and the passing  *)
(* of time (Advance) moves every stored instant back.  An instant older    *)
(* than every duration the program compares it with stays at that age.     *)
(* Option<T> is modelled as a set with at most   *)
(* one element: None == {} and Some(x) == {x}.  Rust indices are 0-based   *)
(* and are kept 0-based in the data; a TLA+ sequence is read at index+1.   *)
(***************************************************************************)
EXTENDS Integers, Sequences, FiniteSets, TLC

None == {}
Some(x) == {x}
IsSome(o) == o # {}
Unwrap(o) == CHOOSE x \in o : TRUE
UnwrapOr(o, d) == IF o = {} THEN d ELSE CHOOSE x \in o : TRUE

Min(a, b) == IF a <= b THEN a ELSE b
SeqToSet(s) == {s[i] : i \in 1..Len(s)}
Last2(s) == IF Len(s) <= 2 THEN s ELSE SubSeq(s, Len(s) - 1, Len(s))

(***************************************************************************)
(* Bounds of the model (not program constants).                            *)
(***************************************************************************)
\* the clock advances at most this many times in the lights-out scenario
MaxAdvances == 4
\* ticks recorded in the lights-out scenario
MaxTicks == 4
\* deactivations buffered while sustain is held
MaxPending == 2
\* clip steps one call of play may execute before the model gives up
MaxSteps == 12

(***************************************************************************)
(* Program constants.                                                      *)
(***************************************************************************)
SUSTAIN_CONTROLLER == 64
TEST_CONTROLLER == 102
INACTIVE == 0
GROUP_ID_START == 10

(***************************************************************************)
(* The show definition (show.rs): the data the runtime is built from.      *)
(* Receivers A=80 and B=81 are in group G, receiver C=82 is in no group.   *)
(***************************************************************************)
Red == [h |-> 0, s |-> 255, v |-> 255]
Blue == [h |-> 160, s |-> 255, v |-> 255]

\* Effect variants with their parameters (a, b, c in declaration order)
Pop == [variant |-> "Pop", a |-> 0, b |-> 0, c |-> 0]
Chase(len, rev) == [variant |-> "Chase", a |-> len, b |-> rev, c |-> 0]
OneShotChase(len, rev, den) == [variant |-> "OneShotChase", a |-> len, b |-> rev, c |-> den]

EffectLight(e) == [kind |-> "Effect", effect |-> e, clip |-> ""]
ClipLight(name) == [kind |-> "Clip", effect |-> Pop, clip |-> name]

Note(ch, n) == [kind |-> "Note", channel |-> ch, num |-> n]
Controller(ch, cc) == [kind |-> "Controller", channel |-> ch, num |-> cc]

\* a JSON value of a target list (serde_json::Value)
JNum(n) == [json |-> "Number", n |-> n, s |-> ""]
JStr(str) == [json |-> "String", n |-> 0, s |-> str]

\* a LightMapping record; id stands for the record's address (get_id)
LightMapping(id, cue, midi, light, one_shot, targets, tempo) ==
    [id |-> id, cue |-> cue, midi |-> midi, light |-> light, color |-> "red",
     override_clip_color |-> None, attack |-> None, sustain |-> None,
     release |-> None, one_shot |-> one_shot, tempo |-> tempo, targets |-> targets]

MappingOn(m) == [t |-> "MappingOn", m |-> Some(m), index |-> 0, millis |-> 0, name |-> "", color |-> Red]
MappingOff(i) == [t |-> "MappingOff", m |-> None, index |-> i, millis |-> 0, name |-> "", color |-> Red]
WaitBeats(b) == [t |-> "WaitBeats", m |-> None, index |-> 0, millis |-> b, name |-> "", color |-> Red]
WaitMillis(ms) == [t |-> "WaitMillis", m |-> None, index |-> 0, millis |-> ms, name |-> "", color |-> Red]
Loop(i) == [t |-> "Loop", m |-> None, index |-> i, millis |-> 0, name |-> "", color |-> Red]
SetColor(col) == [t |-> "SetColor", m |-> None, index |-> 0, millis |-> 0, name |-> "", color |-> col]
SetTempo(bpm) == [t |-> "SetTempo", m |-> None, index |-> 0, millis |-> bpm, name |-> "", color |-> Red]
StopStep == [t |-> "Stop", m |-> None, index |-> 0, millis |-> 0, name |-> "", color |-> Red]
StopOther(n) == [t |-> "StopOther", m |-> None, index |-> 0, millis |-> 0, name |-> n, color |-> Red]
End == [t |-> "End", m |-> None, index |-> 0, millis |-> 0, name |-> "", color |-> Red]

ShowReceivers ==
    << [id |-> 80, name |-> Some("A"), group_name |-> Some("G"), led_count |-> 30],
       [id |-> 81, name |-> Some("B"), group_name |-> Some("G"), led_count |-> 30],
       [id |-> 82, name |-> Some("C"), group_name |-> None, led_count |-> 60] >>

ShowColors == [n \in {"red", "blue"} |-> IF n = "red" THEN Red ELSE Blue]

\* top-level mappings, in the order of the show file
ShowMappings ==
    << LightMapping(1, "m1", Some(Note(0, 60)), EffectLight(Pop), None, Some(<<JStr("G")>>), None),
       LightMapping(2, "m2", Some(Note(0, 61)), EffectLight(Chase(5, 0)), None, Some(<<JStr("A")>>), None),
       LightMapping(3, "m3", Some(Note(0, 62)), EffectLight(OneShotChase(4, 0, 2)),
                    Some(TRUE), Some(<<JStr("G")>>), None),
       LightMapping(4, "m4", Some(Controller(0, 20)), ClipLight("intro"), None, None, Some(120)),
       LightMapping(5, "m5", Some(Note(0, 63)), EffectLight(Pop), Some(FALSE), None, None),
       LightMapping(6, "m6", Some(Controller(0, 21)), ClipLight("second"), None, None, None),
       LightMapping(7, "m7", Some(Controller(0, 22)), ClipLight("intro"), Some(TRUE), None, None),
       \* mappings bound to the controllers 64, 102 and 103 of the control channel
       LightMapping(8, "m8", Some(Controller(0, 64)), EffectLight(Pop), None, Some(<<JStr("C")>>), None),
       LightMapping(9, "m9", Some(Controller(0, 102)), EffectLight(Pop), None, Some(<<JStr("C")>>), None),
       LightMapping(10, "m10", Some(Controller(0, 103)), EffectLight(Pop), None, Some(<<JStr("C")>>), None),
       \* two mappings on one note, two on one controller
       LightMapping(12, "m12", Some(Note(0, 65)), EffectLight(Pop), None, Some(<<JStr("A")>>), None),
       LightMapping(13, "m13", Some(Note(0, 65)), EffectLight(Chase(2, 0)), None, Some(<<JStr("C")>>), None),
       LightMapping(14, "m14", Some(Controller(0, 23)), EffectLight(Pop), None, Some(<<JStr("G")>>), None),
       LightMapping(15, "m15", Some(Controller(0, 23)), EffectLight(Chase(2, 0)), None, Some(<<JStr("B")>>), None),
       \* the clip mapping of a clip that stops itself: its own tempo, and its
       \* color handed to the clip
       [LightMapping(16, "m16", Some(Controller(0, 24)), ClipLight("third"), None, None, Some(90))
           EXCEPT !.color = "blue", !.override_clip_color = Some(TRUE)],
       \* the clip mappings of clips whose steps a show file can hold and the
       \* loader accepts: a MappingOff that points at no MappingOn, a StopOther
       \* that names no clip or the clip itself, a Loop without a wait
       LightMapping(17, "m17", Some(Controller(0, 25)), ClipLight("offs"), None, None, None),
       LightMapping(18, "m18", Some(Controller(0, 26)), ClipLight("beyond"), None, None, None),
       LightMapping(19, "m19", Some(Controller(0, 27)), ClipLight("unknown"), None, None, None),
       LightMapping(20, "m20", Some(Controller(0, 28)), ClipLight("narcissus"), None, None, None),
       LightMapping(23, "m23", Some(Controller(0, 29)), ClipLight("forever"), None, None, None) >>

\* mappings embedded in clip steps
C1Map == LightMapping(11, "c1", None, EffectLight(Pop), None, Some(<<JStr("B")>>), None)
C2Map == LightMapping(21, "c2", None, EffectLight(Chase(3, 1)), Some(TRUE), Some(<<JNum(82)>>), None)
C3Map == LightMapping(22, "c3", None, ClipLight("intro"), None, None, None)
C4Map == LightMapping(31, "c4", None, EffectLight(Pop), None, Some(<<JStr("C")>>), None)
C5Map == LightMapping(41, "c5", None, EffectLight(Pop), None, Some(<<JStr("C")>>), None)

\* the clips that play to their end or stop, and the clips that do not
CoreClips == {"intro", "second", "third"}
ExtraClips == <<"offs", "beyond", "unknown", "narcissus", "forever">>
ClipNames == CoreClips \cup {ExtraClips[i] : i \in 1..Len(ExtraClips)}

ShowClips ==
    [n \in ClipNames |->
        CASE n = "intro" -> << MappingOn(C1Map), WaitBeats(1), MappingOff(0), End >>
          [] n = "second" ->
                << MappingOn(C2Map), MappingOn(C3Map), WaitMillis(1000), StopOther("intro"), End >>
          [] n = "third" -> << MappingOn(C4Map), WaitMillis(500), StopStep >>
          \* MappingOff(1) points at a wait, and the last step is no End
          [] n = "offs" -> << MappingOn(C5Map), WaitMillis(500), MappingOff(1),
                              WaitMillis(500), MappingOff(0) >>
          \* MappingOff(20) points past the last step
          [] n = "beyond" -> << MappingOff(20), End >>
          [] n = "unknown" -> << StopOther("nowhere"), End >>
          [] n = "narcissus" -> << StopOther("narcissus"), End >>
          [] OTHER -> << WaitMillis(0), Loop(0) >>]

Show == [receivers |-> ShowReceivers, colors |-> ShowColors,
         mappings |-> ShowMappings, clips |-> ShowClips]

ReceiverIds == {ShowReceivers[i].id : i \in 1..Len(ShowReceivers)}

(***************************************************************************)
(* The resolver: ShowState::new and create_mutable_state (showstate.rs).   *)
(***************************************************************************)
\* HashMap::insert on a map modelled as a function
Insert(map, k, v) == (k :> v) @@ map
EmptyMap == <<>>
ContainsKey(map, k) == k \in DOMAIN map

\* showstate.rs convert_target: a JSON target as a lookup string, or None
convert_target(json_value) ==
    IF json_value.json = "Number"
    THEN IF json_value.n >= 1 /\ json_value.n <= 255
         THEN Some(ToString(json_value.n)) ELSE None
    ELSE IF json_value.json = "String" THEN Some(json_value.s) ELSE None

\* the loop over show.receivers of ShowState::new: acc holds target_lookup,
\* group_members and the next group id
RECURSIVE PreprocessReceivers(_, _, _)
PreprocessReceivers(receivers, i, acc) ==
    IF i > Len(receivers) THEN acc
    ELSE LET r == receivers[i]
             l1 == Insert(acc.target_lookup, ToString(r.id), r.id)
             l2 == IF IsSome(r.name) THEN Insert(l1, Unwrap(r.name), r.id) ELSE l1
         IN IF IsSome(r.group_name)
            THEN LET g == Unwrap(r.group_name)
                     fresh == ~ContainsKey(l2, g)
                     l3 == IF fresh THEN Insert(l2, g, acc.group_id) ELSE l2
                     next == IF fresh THEN acc.group_id + 1 ELSE acc.group_id
                     gid == l3[g]
                     old == IF ContainsKey(acc.group_members, gid)
                            THEN acc.group_members[gid] ELSE <<>>
                 IN PreprocessReceivers(receivers, i + 1,
                        [target_lookup |-> l3,
                         group_members |-> Insert(acc.group_members, gid, Append(old, r.id)),
                         group_id |-> next])
            ELSE PreprocessReceivers(receivers, i + 1,
                        [target_lookup |-> l2, group_members |-> acc.group_members,
                         group_id |-> acc.group_id])

Resolved == PreprocessReceivers(ShowReceivers, 1,
                [target_lookup |-> EmptyMap, group_members |-> EmptyMap,
                 group_id |-> GROUP_ID_START])
target_lookup == Resolved.target_lookup
group_members == Resolved.group_members

RECURSIVE TriggerIds(_, _, _, _)

\* a trigger table that keeps one mapping per trigger, the last of the show
TriggerIds_last(kind, channel, num, i) ==
    LET hits == {j \in i..Len(ShowMappings) :
                    /\ IsSome(ShowMappings[j].midi)
                    /\ Unwrap(ShowMappings[j].midi).kind = kind
                    /\ Unwrap(ShowMappings[j].midi).channel = channel
                    /\ Unwrap(ShowMappings[j].midi).num = num}
    IN IF hits = {} THEN <<>>
       ELSE <<ShowMappings[CHOOSE j \in hits : \A k \in hits : k <= j].id>>

\* the mapping ids bound to a (channel, note) or (channel, cc) trigger, in show order
TriggerIds(kind, channel, num, i) ==
    IF i > Len(ShowMappings) THEN <<>>
    ELSE LET m == ShowMappings[i]
             hit == IsSome(m.midi) /\ Unwrap(m.midi).kind = kind
                    /\ Unwrap(m.midi).channel = channel /\ Unwrap(m.midi).num = num
         IN (IF hit THEN <<m.id>> ELSE <<>>) \o TriggerIds(kind, channel, num, i + 1)
note_mappings(channel, key) == TriggerIds("Note", channel, key, 1)
controller_mappings(channel, cc) == TriggerIds("Controller", channel, cc, 1)

\* every mapping create_mutable_state registers: the top-level ones and the
\* ones embedded in MappingOn steps
ClipMappings ==
    {Unwrap(ShowClips[c][j].m) : <<c, j>> \in
        {x \in ClipNames \X (1..MaxSteps) :
            x[2] <= Len(ShowClips[x[1]]) /\ ShowClips[x[1]][x[2]].t = "MappingOn"}}
AllMappings == SeqToSet(ShowMappings) \cup ClipMappings
MappingIds == {m.id : m \in AllMappings}
SourceTable == [id \in MappingIds |-> CHOOSE m \in AllMappings : m.id = id]
Source(id) == SourceTable[id]

\* the order in which HashMap::values() yields the receiver cells
ReceiverOrders ==
    {o \in [1..Cardinality(ReceiverIds) -> ReceiverIds] :
        \A i, j \in DOMAIN o : i # j => o[i] # o[j]}

\* create_light_mapping_meta: the resolved target bytes of a mapping
RECURSIVE ResolveTargets(_, _)
ResolveTargets(tgts, i) ==
    IF i > Len(tgts) THEN <<>>
    ELSE <<target_lookup[Unwrap(convert_target(tgts[i]))]>> \o ResolveTargets(tgts, i + 1)
resolved_targets(m) == IF m.targets = None THEN <<>> ELSE ResolveTargets(Unwrap(m.targets), 1)

\* expand_groups: the receiver cells (by id) a target list stands for
RECURSIVE ExpandSeq(_, _)
ExpandSeq(targets, i) ==
    IF i > Len(targets) THEN <<>>
    ELSE (IF ContainsKey(group_members, targets[i])
          THEN group_members[targets[i]] ELSE <<targets[i]>>) \o ExpandSeq(targets, i + 1)
\* expand_groups without the target list: every mapping reaches every receiver
expand_all(order, targets) == order

expand_groups(order, targets) ==
    IF targets = <<>> THEN order ELSE ExpandSeq(targets, 1)

\* create_light_mapping_meta, given the iteration order of the receiver map
create_light_mapping_meta(order, m) ==
    [color |-> ShowColors[m.color], source |-> m,
     targets |-> resolved_targets(m),
     receivers |-> expand_groups(order, resolved_targets(m))]

\* MutableShowState.light_mappings, for each iteration order of the receiver map
light_mappings ==
    [o \in ReceiverOrders |-> [id \in MappingIds |-> create_light_mapping_meta(o, Source(id))]]
Meta(order, id) == light_mappings[order][id]

(***************************************************************************)
(* The resolver as a function of the show definition: ShowState::new and   *)
(* create_mutable_state return a Result, and a show file can hold any      *)
(* JSON value in a target list, any color name, and mappings without a     *)
(* midi element.                                                           *)
(***************************************************************************)
JBool(b) == [json |-> "Bool", n |-> 0, s |-> ""]
JNull == [json |-> "Null", n |-> 0, s |-> ""]

ShowDefinition(receivers, colors, mappings, clips) ==
    [receivers |-> receivers, colors |-> colors, mappings |-> mappings, clips |-> clips]

\* ShowState::new that accepts a mapping without a midi element
new_unchecked(show) ==
    LET pre == PreprocessReceivers(show.receivers, 1,
                   [target_lookup |-> EmptyMap, group_members |-> EmptyMap,
                    group_id |-> GROUP_ID_START])
    IN Some([target_lookup |-> pre.target_lookup, group_members |-> pre.group_members])

\* ShowState::new: the lookup tables of a show, or None for Err
new(show) ==
    LET pre == PreprocessReceivers(show.receivers, 1,
                   [target_lookup |-> EmptyMap, group_members |-> EmptyMap,
                    group_id |-> GROUP_ID_START])
    IN IF \E i \in 1..Len(show.mappings) : show.mappings[i].midi = None
       THEN None
       ELSE Some([target_lookup |-> pre.target_lookup, group_members |-> pre.group_members])

\* the target loop of create_light_mapping_meta: the resolved bytes, or None for Err
RECURSIVE TargetBytes(_, _, _)
TargetBytes(lookup, tgts, i) ==
    IF i > Len(tgts) THEN Some(<<>>)
    ELSE LET tgt_val == convert_target(tgts[i])
         IN IF tgt_val = None THEN None
            ELSE IF ~ContainsKey(lookup, Unwrap(tgt_val)) THEN None
            ELSE LET rest == TargetBytes(lookup, tgts, i + 1)
                 IN IF rest = None THEN None
                    ELSE Some(<<lookup[Unwrap(tgt_val)]>> \o Unwrap(rest))

\* expand_groups on the tables of a show state; an id without a cell is the
\* unwrap of None
RECURSIVE ExpandWith(_, _, _)
ExpandWith(members, targets, i) ==
    IF i > Len(targets) THEN <<>>
    ELSE (IF ContainsKey(members, targets[i])
          THEN members[targets[i]] ELSE <<targets[i]>>) \o ExpandWith(members, targets, i + 1)

\* create_light_mapping_meta: Some(meta), None for Err, "panic"
MetaOf(show, st, m) ==
    LET tg == IF m.targets = None THEN Some(<<>>)
              ELSE TargetBytes(st.target_lookup, Unwrap(m.targets), 1)
        ids == {show.receivers[i].id : i \in 1..Len(show.receivers)}
    IN IF tg = None THEN [res |-> "err", meta |-> None]
       ELSE LET cells == IF Unwrap(tg) = <<>> THEN ids
                         ELSE SeqToSet(ExpandWith(st.group_members, Unwrap(tg), 1))
            IN IF ~(cells \subseteq ids) THEN [res |-> "panic", meta |-> None]
               ELSE IF m.color \notin DOMAIN show.colors THEN [res |-> "err", meta |-> None]
               ELSE [res |-> "ok",
                     meta |-> Some([color |-> show.colors[m.color], source |-> m,
                                    targets |-> Unwrap(tg), receivers |-> cells])]

\* the mappings create_mutable_state resolves: the top-level ones, then the
\* ones of the MappingOn steps of every clip
EmbeddedMappings(show) ==
    {Unwrap(show.clips[c][j].m) : <<c, j>> \in
        {x \in (DOMAIN show.clips) \X (1..MaxSteps) :
            x[2] <= Len(show.clips[x[1]]) /\ show.clips[x[1]][x[2]].t = "MappingOn"}}
MappingsOf(show) == SeqToSet(show.mappings) \cup EmbeddedMappings(show)

\* create_mutable_state: the runtime state of a resolved show
create_mutable_state(show, st) ==
    LET metas == [m \in MappingsOf(show) |-> MetaOf(show, st, m)]
    IN IF \E m \in MappingsOf(show) : metas[m].res = "panic"
       THEN [res |-> "panic", runtime |-> None]
       ELSE IF \E m \in MappingsOf(show) : metas[m].res = "err"
       THEN [res |-> "err", runtime |-> None]
       ELSE [res |-> "ok",
             runtime |-> Some([light_mappings |->
                                  {Unwrap(metas[m].meta) : m \in MappingsOf(show)},
                               receiver_state |->
                                  {show.receivers[i].id : i \in 1..Len(show.receivers)},
                               sustain |-> FALSE, pending_off |-> <<>>])]

\* resolving a show: ShowState::new, then create_mutable_state on its result
Resolve(show) ==
    LET st == new(show)
    IN IF st = None THEN [res |-> "err", runtime |-> None]
       ELSE create_mutable_state(show, Unwrap(st))

(***************************************************************************)
(* Packets (packet.rs) and the duration encodings (showstate.rs).          *)
(***************************************************************************)
EffectId(effect) ==
    CASE effect.variant = "Pop" -> 1
      [] effect.variant = "Chase" -> 3
      [] effect.variant = "OneShotChase" -> 6
      [] OTHER -> 0

convert_millis_adr(millis) ==
    IF millis <= 1279 THEN (millis \div 10) % 128 ELSE ((millis \div 100) % 128) + 128

convert_millis_sustain(millis) ==
    IF millis = 0 THEN 255
    ELSE IF millis <= 12799 THEN (millis \div 100) % 128
    ELSE ((millis \div 1000) % 128) + 128

\* f32 as u8: a saturating cast
AsU8(x) == IF x < 0 THEN 0 ELSE IF x > 255 THEN 255 ELSE x

ShowPayload(effect, color, attack, sustain, release, param1, param2, tempo) ==
    [kind |-> "Show", effect |-> effect, color |-> color, attack |-> attack,
     sustain |-> sustain, release |-> release, param1 |-> param1,
     param2 |-> param2, tempo |-> tempo]

OFF_PACKET == ShowPayload(0, [h |-> 0, s |-> 0, v |-> 0], 0, 0, 0, 0, 0, 0)
TEST_PACKET == ShowPayload(15, [h |-> 96, s |-> 255, v |-> 255], 25, 158, 25, 0, 0, 0)

\* Effect::populate_effect_params
populate_effect_params(effect, p) ==
    CASE effect.variant = "Chase" -> [p EXCEPT !.param1 = effect.a, !.param2 = effect.b]
      [] effect.variant = "OneShotChase" ->
            [p EXCEPT !.param1 = effect.a, !.param2 = effect.b, !.sustain = effect.c]
      [] OTHER -> [p EXCEPT !.param1 = 0, !.param2 = 0]

Packet(recipients, payload) == [recipients |-> recipients, payload |-> payload]
GLOBAL_OFF_PACKET == Packet(<<>>, OFF_PACKET)
GLOBAL_TEST_PACKET == Packet(<<>>, TEST_PACKET)

IsOff(p) == p.payload.kind = "Show" /\ p.payload.effect = 0

\* PacketPayload::Control(Command)
SetGroup(group_id) == [kind |-> "Control", command |-> "SetGroup", param |-> group_id]
SetLedCount(led_count) == [kind |-> "Control", command |-> "SetLedCount", param |-> led_count]
Reset == [kind |-> "Control", command |-> "Reset", param |-> 0]
GLOBAL_RESET_PACKET == Packet(<<>>, Reset)

\* packet.rs GROUP_ID_RANGE = 10u8..80u8, and the capacity marshal asks for
GROUP_ID_END == 80
FRAME_CAPACITY == 64

\* is_broadcast that takes a single group id for a receiver
is_broadcast_no_group(packet) ==
    Len(packet.recipients) = 0 \/ Len(packet.recipients) > 1

\* Packet::is_broadcast
is_broadcast(packet) ==
    \/ Len(packet.recipients) = 0
    \/ Len(packet.recipients) > 1
    \/ (packet.recipients[1] >= GROUP_ID_START /\ packet.recipients[1] < GROUP_ID_END)

\* ShowPacket::marshal with attack and release exchanged
ShowPacket_marshal_swapped(p) ==
    <<p.effect, p.color.h, p.color.s, p.color.v, p.release, p.sustain, p.attack,
      p.param1, p.param2, p.tempo>>

\* ShowPacket::marshal: the ten payload bytes of a Show packet
ShowPacket_marshal(p) ==
    <<p.effect, p.color.h, p.color.s, p.color.v, p.attack, p.sustain, p.release,
      p.param1, p.param2, p.tempo>>

\* Command::marshal: the marker, the command id and three parameter bytes
Command_marshal(p) ==
    CASE p.command = "SetGroup" -> <<255, 109, p.param, 0, 0>>
      [] p.command = "SetLedCount" -> <<255, 110, (p.param \div 256) % 256, p.param % 256, 0>>
      [] OTHER -> <<255, 255, 0, 0, 0>>

\* Packet::marshal: the frame as a sequence of bytes; the length byte is a
\* usize cast to u8
marshal(packet, from_id, packet_id, flags) ==
    LET head == <<0, IF is_broadcast(packet) THEN 255 ELSE packet.recipients[1],
                  from_id, packet_id, flags>>
        body == IF packet.payload.kind = "Control" THEN Command_marshal(packet.payload)
                ELSE ShowPacket_marshal(packet.payload)
        buf == head \o body \o (IF is_broadcast(packet) THEN packet.recipients ELSE <<>>)
    IN [buf EXCEPT ![1] = (Len(buf) - 1) % 256]

(***************************************************************************)
(* The runtime.  A handler is a sequence of calls; each call is an         *)
(* operator from a context record to a context record.  The context holds  *)
(* the mutable state (MutableShowState, the clip engine's cells), what the *)
(* handler has sent so far, and how the call ended:                        *)
(*   res = "ok"     the call returned Ok                                   *)
(*   res = "err"    the call returned Err (a failed radio send)            *)
(*   res = "panic"  the thread panicked (unwrap of None, index out of      *)
(*                  range, a RefCell borrowed twice)                       *)
(*   res = "hang"   play did not return within MaxSteps steps              *)
(***************************************************************************)
NoFail == -1

\* Radio::send: fail_in counts the sends that still succeed (NoFail: all do)
Send(c, packet) ==
    IF c.res # "ok" THEN c
    ELSE IF c.fail_in = 0 THEN [c EXCEPT !.res = "err"]
    ELSE [c EXCEPT !.out = Append(@, packet),
                   !.fail_in = IF @ > 0 THEN @ - 1 ELSE @]

\* `let _ = call`: an Err result is dropped
Ignore(c) == IF c.res = "err" THEN [c EXCEPT !.res = "ok"] ELSE c

Called(c, what, id) == [c EXCEPT !.calls = Append(@, [op |-> what, id |-> id])]

\* one_shot read as never set
IsOneShot_never(m) == FALSE

IsOneShot(m) == UnwrapOr(m.one_shot, FALSE)

\* activate that never records the owner
RS_activate_never(trigger_mapping, mapping) == INACTIVE

\* activate that leaves the cell alone for a one-shot mapping
RS_activate_keep(trigger_mapping, mapping) ==
    IF ~IsOneShot(mapping) THEN mapping.id ELSE trigger_mapping

\* ReceiverState::activate, on the cell's trigger_mapping
RS_activate(trigger_mapping, mapping) ==
    IF ~IsOneShot(mapping) THEN mapping.id ELSE INACTIVE

\* ReceiverState::activated_by
RS_activated_by(trigger_mapping, mapping) == trigger_mapping = mapping.id

\* deactivate that forgets to clear the owner
RS_deactivate_keep(trigger_mapping, mapping) == trigger_mapping

\* ReceiverState::deactivate
RS_deactivate(trigger_mapping, mapping) ==
    IF trigger_mapping = mapping.id THEN INACTIVE ELSE trigger_mapping

\* is_active with the comparison the wrong way round for an unsigned id
RS_is_active_never(trigger_mapping) == trigger_mapping < INACTIVE

\* ReceiverState::is_active
RS_is_active(trigger_mapping) == trigger_mapping # INACTIVE

NoOverrides == [color |-> None, tempo |-> None, attack |-> None,
                sustain |-> None, release |-> None]

Or(a, b) == IF a # None THEN a ELSE b

\* activate_effect that marks the receivers before it sends
activate_effect_early(c, order, id, overrides, now) ==
    LET meta == Meta(order.receivers, id)
        src == meta.source
        effect == src.light.effect
        show_packet ==
            ShowPayload(EffectId(effect),
                UnwrapOr(overrides.color, meta.color),
                convert_millis_adr(UnwrapOr(Or(overrides.attack, src.attack), 0)),
                convert_millis_sustain(UnwrapOr(Or(overrides.sustain, src.sustain), 0)),
                convert_millis_adr(UnwrapOr(Or(overrides.release, src.release), 0)),
                0, 0,
                AsU8(UnwrapOr(Or(overrides.tempo, src.tempo), 120)))
    IN Send([c EXCEPT
                !.rs = [r \in DOMAIN @ |->
                          IF r \in SeqToSet(meta.receivers)
                          THEN RS_activate(@[r], src) ELSE @[r]],
                !.last_effect = now],
            Packet(meta.targets, populate_effect_params(effect, show_packet)))

\* ShowState::activate_effect
activate_effect(c, order, id, overrides, now) ==
    LET meta == Meta(order.receivers, id)
        src == meta.source
        effect == src.light.effect
        show_packet ==
            ShowPayload(EffectId(effect),
                UnwrapOr(overrides.color, meta.color),
                convert_millis_adr(UnwrapOr(Or(overrides.attack, src.attack), 0)),
                convert_millis_sustain(UnwrapOr(Or(overrides.sustain, src.sustain), 0)),
                convert_millis_adr(UnwrapOr(Or(overrides.release, src.release), 0)),
                0, 0,
                AsU8(UnwrapOr(Or(overrides.tempo, src.tempo), 120)))
        c1 == Send(c, Packet(meta.targets, populate_effect_params(effect, show_packet)))
    IN IF c1.res # "ok" THEN c1
       ELSE [c1 EXCEPT
                !.rs = [r \in DOMAIN @ |->
                          IF r \in SeqToSet(meta.receivers)
                          THEN RS_activate(@[r], src) ELSE @[r]],
                !.last_effect = now]

\* start that also clears the owned set
ClipStart_clear(clip, override_color, tempo, now) ==
    [clip EXCEPT !.playing = TRUE, !.step = 0, !.advance_at = now,
                 !.tempo = tempo, !.override_color = override_color,
                 !.active_mappings = {}]

\* ClipState::start
ClipStart(clip, override_color, tempo, now) ==
    [clip EXCEPT !.playing = TRUE, !.step = 0, !.advance_at = now,
                 !.tempo = tempo, !.override_color = override_color]

\* RefCell::borrow_mut on a cell that is borrowed already: the panic is logged
\* with the calls
BorrowMutError(c) == [Called(c, "BorrowMutError", 0) EXCEPT !.res = "panic"]

\* ClipEngine::start_clip
start_clip(c, clip_name, override_color, tempo, now) ==
    IF clip_name \notin DOMAIN c.cs THEN [c EXCEPT !.res = "panic"]
    ELSE IF clip_name \in c.borrowed THEN BorrowMutError(c)
    ELSE [c EXCEPT !.cs[clip_name] = ClipStart(@, override_color, tempo, now)]

\* ShowState::activate_clip
activate_clip(c, order, id, clip, now) ==
    LET light_mapping == Meta(order.receivers, id)
        override_color ==
            IF UnwrapOr(light_mapping.source.override_clip_color, FALSE)
            THEN Some(light_mapping.color) ELSE None
    IN start_clip(c, clip, override_color, UnwrapOr(light_mapping.source.tempo, 120), now)

\* ShowState::activate
activate(c0, order, id, overrides, now) ==
    IF c0.res # "ok" THEN c0
    ELSE LET c == Called(c0, "activate", id)
             light == Source(id).light
         IN IF light.kind = "Effect"
            THEN activate_effect(c, order, id, overrides, now)
            ELSE activate_clip(c, order, id, light.clip, now)

\* the dynamic recipient list without its filter
EveryReceiver(rs, receivers, mapping, i) == receivers

\* the receivers of a mapping that it still owns, in list order
RECURSIVE StillOwned(_, _, _, _)
StillOwned(rs, receivers, mapping, i) ==
    IF i > Len(receivers) THEN <<>>
    ELSE (IF RS_activated_by(rs[receivers[i]], mapping) THEN <<receivers[i]>> ELSE <<>>)
         \o StillOwned(rs, receivers, mapping, i + 1)

\* ShowState::deactivate_effect
deactivate_effect(c, mapping_meta) ==
    LET src == mapping_meta.source
        simple_off_path ==
            \A i \in 1..Len(mapping_meta.receivers) :
                RS_activated_by(c.rs[mapping_meta.receivers[i]], src)
        dynamic_recipients ==
            IF simple_off_path THEN None
            ELSE Some(StillOwned(c.rs, mapping_meta.receivers, src, 1))
        packet == Packet(UnwrapOr(dynamic_recipients, mapping_meta.targets), OFF_PACKET)
    IN IF dynamic_recipients = None \/ Unwrap(dynamic_recipients) # <<>>
       THEN LET c1 == Send(c, packet)
            IN IF c1.res # "ok" THEN c1
               ELSE [c1 EXCEPT
                        !.rs = [r \in DOMAIN @ |->
                                  IF r \in SeqToSet(mapping_meta.receivers)
                                  THEN RS_deactivate(@[r], src) ELSE @[r]]]
       ELSE c

\* the order in which HashSet::drain yields a clip's owned mapping ids
RECURSIVE DrainOrder(_, _)
DrainOrder(ids, descending) ==
    IF ids = {} THEN <<>>
    ELSE LET x == IF descending
                  THEN CHOOSE y \in ids : \A z \in ids : z <= y
                  ELSE CHOOSE y \in ids : \A z \in ids : y <= z
         IN <<x>> \o DrainOrder(ids \ {x}, descending)

RECURSIVE deactivate(_, _, _)
RECURSIVE StopLoop(_, _, _, _, _)

\* the body of ClipState::stop after the drain has been taken: ids are the
\* drained mapping ids still to deactivate
StopLoop(c, order, clip_name, ids, i) ==
    IF c.res # "ok" THEN c
    ELSE IF i > Len(ids)
         THEN [c EXCEPT !.cs[clip_name].playing = FALSE, !.cs[clip_name].step = 0]
         ELSE StopLoop(deactivate(c, order, ids[i]), order, clip_name, ids, i + 1)

\* stop that forgets the owned mappings without deactivating them
ClipStop_forget(c, order, clip_name) ==
    IF c.res # "ok" THEN c
    ELSE [c EXCEPT !.cs[clip_name].active_mappings = {},
                   !.cs[clip_name].playing = FALSE, !.cs[clip_name].step = 0]

\* ClipState::stop
ClipStop(c, order, clip_name) ==
    IF c.res # "ok" THEN c
    ELSE StopLoop([c EXCEPT !.cs[clip_name].active_mappings = {}], order, clip_name,
                  DrainOrder(c.cs[clip_name].active_mappings, order.drain_descending), 1)

\* ClipEngine::stop_clip
stop_clip(c, order, clip_name) ==
    IF c.res # "ok" THEN c
    ELSE IF clip_name \notin DOMAIN c.cs THEN [c EXCEPT !.res = "panic"]
    ELSE IF clip_name \in c.borrowed THEN BorrowMutError(c)
         ELSE LET c1 == ClipStop([c EXCEPT !.borrowed = @ \cup {clip_name}], order, clip_name)
              IN [c1 EXCEPT !.borrowed = @ \ {clip_name}]

\* deactivate that holds back every deactivation while the pedal is down
deactivate_buffered(c0, order, id) ==
    IF c0.res # "ok" THEN c0
    ELSE IF c0.sustain THEN [c0 EXCEPT !.pending_off = Append(@, id)]
    ELSE LET c == Called(c0, "deactivate", id)
             mapping_meta == Meta(order.receivers, id)
         IN IF ~IsOneShot(mapping_meta.source)
            THEN IF mapping_meta.source.light.kind = "Effect"
                 THEN deactivate_effect(c, mapping_meta)
                 ELSE stop_clip(c, order, mapping_meta.source.light.clip)
            ELSE c

\* ShowState::deactivate
deactivate(c0, order, id) ==
    IF c0.res # "ok" THEN c0
    ELSE LET c == Called(c0, "deactivate", id)
             mapping_meta == Meta(order.receivers, id)
         IN IF ~IsOneShot(mapping_meta.source)
            THEN IF mapping_meta.source.light.kind = "Effect"
                 THEN deactivate_effect(c, mapping_meta)
                 ELSE stop_clip(c, order, mapping_meta.source.light.clip)
            ELSE c

\* deactivate_from_midi without the sustain test
deactivate_from_midi_eager(c, order, id) == deactivate(c, order, id)

\* ShowState::deactivate_from_midi
deactivate_from_midi(c, order, id) ==
    IF c.res # "ok" THEN c
    ELSE IF c.sustain THEN [c EXCEPT !.pending_off = Append(@, id)]
         ELSE deactivate(c, order, id)

(***************************************************************************)
(* The clip engine (clip.rs).                                              *)
(***************************************************************************)
\* ClipState::new, at the instant the engine is built
ClipNew(now) ==
    [playing |-> FALSE, step |-> 0, advance_at |-> now, tempo |-> 120,
     override_color |-> None, active_mappings |-> {}]

\* beats counted as seconds, whatever the tempo
beats_to_millis_seconds(tempo, beats) == beats * 1000

\* ClipState::beats_to_millis
beats_to_millis(tempo, beats) == (beats * 60000) \div tempo

\* self.step = self.step + 1
NextStep(c, clip_name) == [c EXCEPT !.cs[clip_name].step = @ + 1]

\* the MappingOn arm that records a one-shot mapping as owned, too
AfterMappingOn_always(c1, clip_name, mapping) ==
    IF c1.res # "ok" THEN c1
    ELSE NextStep([c1 EXCEPT !.cs[clip_name].active_mappings = @ \cup {mapping.id}], clip_name)

\* the MappingOn arm after show_state.activate has returned (c1)
AfterMappingOn(c1, clip_name, mapping) ==
    IF c1.res # "ok" THEN c1
    ELSE NextStep(IF ~IsOneShot(mapping)
                  THEN [c1 EXCEPT !.cs[clip_name].active_mappings = @ \cup {mapping.id}]
                  ELSE c1, clip_name)

\* the MappingOff arm after show_state.deactivate has returned (c1)
AfterMappingOff(c1, clip_name, mapping) ==
    IF c1.res # "ok" THEN c1
    ELSE NextStep([c1 EXCEPT !.cs[clip_name].active_mappings = @ \ {mapping.id}], clip_name)

\* the StopOther arm after engine.stop_clip has returned (c1)
AfterStopOther(c1, clip_name) == IF c1.res # "ok" THEN c1 ELSE NextStep(c1, clip_name)

\* one iteration of the while loop of ClipState::play, past the advance_at guard
PlayStep(c, order, clip_name, now) ==
    LET self == c.cs[clip_name]
        steps == ShowClips[clip_name]
        step == steps[self.step + 1]
    IN CASE step.t = "MappingOn" ->
              AfterMappingOn(
                  Ignore(activate(c, order, Unwrap(step.m).id,
                                  [color |-> self.override_color, tempo |-> Some(self.tempo),
                                   attack |-> None, sustain |-> None, release |-> None],
                                  now)),
                  clip_name, Unwrap(step.m))
         [] step.t = "MappingOff" ->
              IF step.index >= Len(steps) THEN [c EXCEPT !.res = "panic"]
              ELSE IF steps[step.index + 1].t = "MappingOn"
                   THEN AfterMappingOff(
                            Ignore(deactivate(c, order, Unwrap(steps[step.index + 1].m).id)),
                            clip_name, Unwrap(steps[step.index + 1].m))
                   ELSE NextStep(c, clip_name)
         [] step.t = "End" -> [c EXCEPT !.cs[clip_name].playing = FALSE]
         [] step.t = "Loop" -> [c EXCEPT !.cs[clip_name].step = step.index]
         [] step.t = "SetColor" ->
              NextStep([c EXCEPT !.cs[clip_name].override_color = Some(step.color)], clip_name)
         [] step.t = "SetTempo" ->
              NextStep([c EXCEPT !.cs[clip_name].tempo = step.millis], clip_name)
         [] step.t = "Stop" -> Ignore(ClipStop(c, order, clip_name))
         [] step.t = "StopOther" ->
              AfterStopOther(Ignore(stop_clip(c, order, step.name)), clip_name)
         [] step.t = "WaitBeats" ->
              NextStep([c EXCEPT !.cs[clip_name].advance_at =
                                     now + beats_to_millis(self.tempo, step.millis)], clip_name)
         [] step.t = "WaitMillis" ->
              NextStep([c EXCEPT !.cs[clip_name].advance_at = now + step.millis], clip_name)
         [] OTHER -> [c EXCEPT !.res = "panic"]

\* ClipState::play; the returned Option<Instant> is left in c.ret
RECURSIVE play(_, _, _, _, _)
play(c, order, clip_name, now, fuel) ==
    IF c.res # "ok" THEN c
    ELSE LET self == c.cs[clip_name]
         IN IF ~(self.playing /\ self.step < Len(ShowClips[clip_name]))
            THEN [c EXCEPT !.ret = None]
            ELSE IF self.advance_at > now THEN [c EXCEPT !.ret = Some(self.advance_at)]
            ELSE IF fuel = 0 THEN [c EXCEPT !.res = "hang"]
            ELSE play(PlayStep(c, order, clip_name, now), order, clip_name, now, fuel - 1)

\* the if of the loop of play_clips: c1.ret is play_this_again_at, the result's
\* ret is play_again_at
KeepEarliest(c1, name, play_again_at) ==
    [c1 EXCEPT !.borrowed = @ \ {name},
               !.ret = IF IsSome(c1.ret)
                          /\ (play_again_at = None \/ Unwrap(c1.ret) < Unwrap(play_again_at))
                       THEN c1.ret ELSE play_again_at]

\* ClipEngine::play_clips: the clips are visited in the map's iteration order;
\* c.ret holds play_again_at, the accumulator of the loop
RECURSIVE PlayClipsLoop(_, _, _, _)
PlayClipsLoop(c, order, now, i) ==
    IF c.res # "ok" \/ i > Len(order.clips) THEN c
    ELSE CHOOSE done \in
             {PlayClipsLoop(c1, order, now, i + 1) :
                 c1 \in {KeepEarliest(play([c EXCEPT !.borrowed = @ \cup {order.clips[i]}],
                                            order, order.clips[i], now, MaxSteps),
                                       order.clips[i], c.ret)}} : TRUE

play_clips(c, order, now) == PlayClipsLoop([c EXCEPT !.ret = None], order, now, 1)

\* ClipEngine::is_playing
is_playing(cs) == \E n \in DOMAIN cs : cs[n].playing

(***************************************************************************)
(* tick and the MIDI dispatch (showstate.rs).                              *)
(***************************************************************************)
\* Instant - Instant saturates at zero
Since(now, then) == IF now >= then THEN now - then ELSE 0

\* Range<Duration>::contains for ConfigFile::lights_out_window
InWindow(config, d) == config.lights_out_window_open <= d /\ d < config.lights_out_window_close

\* the period test with > for >=
PeriodElapsed_strict(config, d) == d > config.lights_out_period

\* now - state.last_lights_out >= self.config.lights_out_delay()
PeriodElapsed(config, d) == d >= config.lights_out_period

\* ShowState::tick from the lights-out test on: c1 is the state play_clips
\* left, c1.ret is play_clips_at.  The returned duration is left in ret (None
\* when tick returned an error)
tick_lights_out(c1, config, now) ==
    LET play_clips_at == c1.ret
        receiver_active == \E r \in DOMAIN c1.rs : RS_is_active(c1.rs[r])
        lights_out == ~receiver_active /\ ~is_playing(c1.cs)
                      /\ InWindow(config, Since(now, c1.last_effect))
                      /\ PeriodElapsed(config, Since(now, c1.last_lights_out))
        c3 == Send(c1, GLOBAL_OFF_PACKET)
        c2 == IF lights_out
              THEN IF c3.res # "ok" THEN c3 ELSE [c3 EXCEPT !.last_lights_out = now]
              ELSE c1
        lights_out_delay == config.lights_out_period
    IN IF c1.res # "ok" THEN [c1 EXCEPT !.ret = None]
       ELSE IF c2.res # "ok" THEN [c2 EXCEPT !.ret = None]
       ELSE [c2 EXCEPT !.ret =
                Some(Min(lights_out_delay,
                         IF play_clips_at = None THEN lights_out_delay
                         ELSE Unwrap(play_clips_at) - now))]

\* ShowState::tick
tick(c, order, config, now) == tick_lights_out(play_clips(c, order, now), config, now)

\* for id in ids { self.activate(*id, None, state)?; }
RECURSIVE ActivateAll(_, _, _, _, _)
ActivateAll(c, order, ids, i, now) ==
    IF c.res # "ok" \/ i > Len(ids) THEN c
    ELSE ActivateAll(activate(c, order, ids[i], NoOverrides, now), order, ids, i + 1, now)

\* for id in ids { self.deactivate_from_midi(*id, state)?; }
RECURSIVE DeactivateAllFromMidi(_, _, _, _)
DeactivateAllFromMidi(c, order, ids, i) ==
    IF c.res # "ok" \/ i > Len(ids) THEN c
    ELSE DeactivateAllFromMidi(deactivate_from_midi(c, order, ids[i]), order, ids, i + 1)

\* for e in pending_off.clone() { self.deactivate(*e, state)?; }
RECURSIVE DeactivateAll(_, _, _, _)
DeactivateAll(c, order, ids, i) ==
    IF c.res # "ok" \/ i > Len(ids) THEN c
    ELSE DeactivateAll(deactivate(c, order, ids[i]), order, ids, i + 1)

\* ShowState::process_note_on
process_note_on(c, order, channel, key, now) ==
    ActivateAll(c, order, note_mappings(channel, key), 1, now)

\* ShowState::process_note_off
process_note_off(c, order, channel, key) ==
    DeactivateAllFromMidi(c, order, note_mappings(channel, key), 1)

\* only the sustain controller is reserved
IsSpecial_sustain_only(config, channel, controller) ==
    channel = config.midi_control_channel /\ controller = SUSTAIN_CONTROLLER

\* does process_special_controllers return Ok(true) for this controller
IsSpecial(config, channel, controller) ==
    channel = config.midi_control_channel
    /\ controller \in {SUSTAIN_CONTROLLER, TEST_CONTROLLER}

\* state.pending_off.clear(), reached when no deactivate of the flush failed
Flushed(c1) == IF c1.res # "ok" THEN c1 ELSE [c1 EXCEPT !.pending_off = <<>>]

\* ShowState::process_special_controllers, for a controller it handles
process_special_controllers(c, order, controller, value, now) ==
    IF controller = SUSTAIN_CONTROLLER
    THEN IF value = 127 THEN [c EXCEPT !.sustain = TRUE]
         ELSE IF value = 0
              THEN Flushed(DeactivateAll([c EXCEPT !.sustain = FALSE], order,
                                         c.pending_off, 1))
              ELSE c
    ELSE IF value = 127
         THEN LET c1 == Send(c, GLOBAL_TEST_PACKET)
              IN IF c1.res # "ok" THEN c1 ELSE [c1 EXCEPT !.last_effect = now]
         ELSE Send(c, GLOBAL_OFF_PACKET)

\* process_controller deactivating on every value but 127
process_controller_any_off(c, order, config, channel, controller, value, now) ==
    IF IsSpecial(config, channel, controller)
    THEN process_special_controllers(c, order, controller, value, now)
    ELSE IF value = 127
         THEN ActivateAll(c, order, controller_mappings(channel, controller), 1, now)
         ELSE DeactivateAllFromMidi(c, order, controller_mappings(channel, controller), 1)

\* ShowState::process_controller
process_controller(c, order, config, channel, controller, value, now) ==
    IF IsSpecial(config, channel, controller)
    THEN process_special_controllers(c, order, controller, value, now)
    ELSE IF value = 127
         THEN ActivateAll(c, order, controller_mappings(channel, controller), 1, now)
         ELSE IF value = 0
              THEN DeactivateAllFromMidi(c, order, controller_mappings(channel, controller), 1)
              ELSE c

(***************************************************************************)
(* What run_show calls on its show state, and the messages of its channel. *)
(***************************************************************************)
\* DirectorMessage
MidiMessage(buf) == [kind |-> "MidiMessage", buf |-> buf]
Shutdown == [kind |-> "Shutdown", buf |-> <<>>]
Reload == [kind |-> "Reload", buf |-> <<>>]
ReInitialize == [kind |-> "ReInitialize", buf |-> <<>>]

\* LiveEvent::parse: None when the buffer is not a MIDI event (no status
\* byte, a data byte in its place, or a channel message cut short)
LiveEvent_parse(buf) ==
    IF buf = <<>> THEN None
    ELSE IF buf[1] < 128 THEN None
    ELSE IF buf[1] \div 16 \in {8, 9, 11}
         THEN IF Len(buf) < 3 THEN None
              ELSE Some([kind |-> CASE buf[1] \div 16 = 8 -> "NoteOff"
                                   [] buf[1] \div 16 = 9 -> "NoteOn"
                                   [] OTHER -> "Controller",
                         channel |-> buf[1] % 16, a |-> buf[2], b |-> buf[3]])
         ELSE Some([kind |-> "Other", channel |-> 0, a |-> 0, b |-> 0])

\* ShowState::process_midi on a parsed event
process_event(c, order, config, ev, now) ==
    CASE ev.kind = "Controller" -> process_controller(c, order, config, ev.channel, ev.a, ev.b, now)
      [] ev.kind = "NoteOn" -> process_note_on(c, order, ev.channel, ev.a, now)
      [] ev.kind = "NoteOff" -> process_note_off(c, order, ev.channel, ev.a)
      [] OTHER -> c

\* process_midi of the director: LiveEvent::parse(&buf)? and the dispatch
process_midi(c, order, config, buf, now) ==
    IF LiveEvent_parse(buf) = None THEN [c EXCEPT !.res = "err"]
    ELSE process_event(c, order, config, Unwrap(LiveEvent_parse(buf)), now)

\* the loop over show.receivers of configure_receivers
RECURSIVE ConfigureLoop(_, _)
ConfigureLoop(c, i) ==
    IF c.res # "ok" \/ i > Len(ShowReceivers) THEN c
    ELSE LET receiver == ShowReceivers[i]
             c1 == IF IsSome(receiver.group_name)
                   THEN Send(c, Packet(<<receiver.id>>,
                                       SetGroup(target_lookup[Unwrap(receiver.group_name)])))
                   ELSE c
         IN ConfigureLoop(Send(c1, Packet(<<receiver.id>>, SetLedCount(receiver.led_count))),
                          i + 1)

\* configure_receivers as the director's draft has it: no Reset in front
configure_receivers_draft(c) == Send(ConfigureLoop(c, 1), Packet(<<>>, Reset))

\* ShowState::configure_receivers
configure_receivers(c) ==
    Send(ConfigureLoop(Send(c, GLOBAL_RESET_PACKET), 1), Packet(<<>>, Reset))

\* a context that keeps the runtime it finds
FreshCtx_stale(c, now) == c

\* a new show state: ShowState::create_mutable_state and ClipEngine::new
FreshCtx(c, now) ==
    [c EXCEPT !.rs = [r \in ReceiverIds |-> INACTIVE],
              !.cs = [n \in ClipNames |-> ClipNew(now)],
              !.sustain = FALSE, !.pending_off = <<>>,
              !.last_effect = now, !.last_lights_out = now]

(***************************************************************************)
(* State.                                                                  *)
(***************************************************************************)
VARIABLES
    receiver_state,   \* MutableShowState.receiver_state: receiver id -> trigger_mapping
    clip_state,       \* ClipEngine.clip_state: clip name -> ClipState
    sustain,          \* MutableShowState.sustain
    pending_off,      \* MutableShowState.pending_off
    last_effect,      \* MutableShowState.last_effect
    last_lights_out,  \* MutableShowState.last_lights_out
    now,              \* the instant Instant::now() returns
    config,           \* the ConfigFile fields the runtime reads
    order,            \* the iteration orders of the hash maps and sets of this run
    fail_in,          \* radio sends that still succeed (NoFail: the radio never fails)
    status,           \* "running", or how the show thread ended
    op,               \* the last handler and its arguments
    result,           \* "ok" or "err": what the last handler returned
    sent,             \* the packets the last handler sent, in order
    calls,            \* the activate / deactivate calls of the last handler, in order
    wake,             \* the duration the last tick returned (None: no tick, or Err)
    hist,             \* the last two direct activate / deactivate calls (call-level specification)
    ticks,            \* the ticks since the last MIDI event (lights-out scenario)
    advances,         \* how often the clock has advanced (lights-out scenario)
    rx,               \* the director's channel: the messages sent and not yet received
    show_loaded,      \* run_show's `show` (and so its `state`) is Some
    handled,          \* the message the director received last (None: none yet)
    main_loop         \* main's signal loop: "signals", or "joining" once it has left it

vars == <<receiver_state, clip_state, sustain, pending_off, last_effect, last_lights_out,
          now, config, order, fail_in, status, op, result, sent, calls, wake, hist,
          ticks, advances, rx, show_loaded, handled, main_loop>>

\* the variables of the director and of main
dvars == <<rx, show_loaded, handled, main_loop>>

\* the configurations the specifications start from (milliseconds)
ShortWindow == [midi_control_channel |-> 0, lights_out_window_open |-> 1000,
                lights_out_window_close |-> 2500, lights_out_period |-> 1000,
                channel_buf_depth |-> 1]
LongWindow == [midi_control_channel |-> 0, lights_out_window_open |-> 2000,
               lights_out_window_close |-> 60000, lights_out_period |-> 1000,
               channel_buf_depth |-> 1]

\* the order in which HashMap::iter() yields the clips: the three clips that
\* start and stop one another in every order, the others after them
ClipOrders == {o \o ExtraClips : o \in {p \in [1..Cardinality(CoreClips) -> CoreClips] :
                                          \A i, j \in DOMAIN p : i # j => p[i] # p[j]}}

Orders == [receivers : ReceiverOrders, clips : ClipOrders, drain_descending : BOOLEAN]

Op(kind, a, b, v) == [kind |-> kind, a |-> a, b |-> b, v |-> v]

\* the state of a new runtime (ShowState::create_mutable_state and
\* ClipEngine::new) with the show thread at position at
InitAt(cfg, orders, at, loaded) ==
    /\ receiver_state = [r \in ReceiverIds |-> INACTIVE]
    /\ clip_state = [n \in ClipNames |-> ClipNew(0)]
    /\ sustain = FALSE
    /\ pending_off = <<>>
    /\ last_effect = 0
    /\ last_lights_out = 0
    /\ now = 0
    /\ config = cfg
    /\ order \in orders
    /\ fail_in = NoFail
    /\ status = at
    /\ op = Op("init", 0, 0, 0)
    /\ result = "ok"
    /\ sent = <<>>
    /\ calls = <<>>
    /\ wake = None
    /\ hist = <<>>
    /\ ticks = <<>>
    /\ advances = 0
    /\ rx = <<>>
    /\ show_loaded = loaded
    /\ handled = None
    /\ main_loop = "signals"

\* a show state in use: configured, and its thread waiting for events
InitWith(cfg, orders) == InitAt(cfg, orders, "running", TRUE)

\* the context a handler starts from
Ctx == [rs |-> receiver_state, cs |-> clip_state, sustain |-> sustain,
        pending_off |-> pending_off, last_effect |-> last_effect,
        last_lights_out |-> last_lights_out, fail_in |-> fail_in,
        out |-> <<>>, calls |-> <<>>, res |-> "ok", borrowed |-> {}, ret |-> None]

\* the state a call leaves behind, and what it returned
CommitState(c, o) ==
    /\ receiver_state' = c.rs
    /\ clip_state' = c.cs
    /\ sustain' = c.sustain
    /\ pending_off' = c.pending_off
    /\ last_effect' = c.last_effect
    /\ last_lights_out' = c.last_lights_out
    /\ fail_in' = c.fail_in
    /\ result' = IF c.res = "ok" THEN "ok" ELSE "err"
    /\ op' = o
    /\ sent' = c.out
    /\ calls' = c.calls
    /\ wake' = IF o.kind = "tick" THEN c.ret ELSE None
    /\ UNCHANGED <<now, config, order>>

\* the state a handler leaves behind, for a caller that goes on after an Err
Commit(c, o) ==
    /\ CommitState(c, o)
    /\ status' = IF c.res \in {"ok", "err"} THEN "running" ELSE c.res

(***************************************************************************)
(* Handlers.                                                               *)
(***************************************************************************)
\* process_midi on LiveEvent::Midi { NoteOn }
NoteOn(channel, key) ==
    /\ status = "running"
    /\ Commit(process_note_on(Ctx, order, channel, key, now), Op("NoteOn", channel, key, 0))
    /\ UNCHANGED dvars

\* process_midi on LiveEvent::Midi { NoteOff }
NoteOff(channel, key) ==
    /\ status = "running"
    /\ sustain => Len(pending_off) + Len(note_mappings(channel, key)) <= MaxPending
    /\ Commit(process_note_off(Ctx, order, channel, key), Op("NoteOff", channel, key, 0))
    /\ UNCHANGED dvars

\* process_midi on LiveEvent::Midi { Controller }
ControlChange(channel, controller, value) ==
    /\ status = "running"
    /\ (sustain /\ value = 0 /\ ~IsSpecial(config, channel, controller))
          => Len(pending_off) + Len(controller_mappings(channel, controller)) <= MaxPending
    /\ Commit(process_controller(Ctx, order, config, channel, controller, value, now),
              Op("Controller", channel, controller, value))
    /\ UNCHANGED dvars

\* the director's timeout: ShowState::tick
Tick ==
    /\ status = "running"
    /\ Commit(tick(Ctx, order, config, now), Op("tick", 0, 0, 0))
    /\ UNCHANGED dvars

\* an instant, dt later: instants older than the horizon all behave alike.
\* last_effect is compared with the window, last_lights_out with the period,
\* and advance_at only with now
Aged(t, dt, horizon) == IF t - dt < 0 - horizon THEN 0 - horizon ELSE t - dt

\* time passes while the director waits on its channel
Advance(dt) ==
    /\ status = "running"
    /\ last_effect' = Aged(last_effect, dt, config.lights_out_window_close)
    /\ last_lights_out' = Aged(last_lights_out, dt, config.lights_out_period)
    /\ clip_state' = [n \in DOMAIN clip_state |->
                        [clip_state[n] EXCEPT !.advance_at = Aged(@, dt, 0)]]
    /\ op' = Op("advance", dt, 0, 0)
    /\ sent' = <<>>
    /\ calls' = <<>>
    /\ wake' = None
    /\ result' = "ok"
    /\ UNCHANGED <<receiver_state, sustain, pending_off, now, config, order, fail_in, status>>
    /\ UNCHANGED dvars

\* a direct call of ShowState::activate(mapping_id, None, state)
ApiActivate(id) ==
    /\ status = "running"
    /\ Commit(activate(Ctx, order, id, NoOverrides, now), Op("activate", id, 0, 0))
    /\ UNCHANGED dvars

\* a direct call of ShowState::deactivate(mapping_id, state)
ApiDeactivate(id) ==
    /\ status = "running"
    /\ Commit(deactivate(Ctx, order, id), Op("deactivate", id, 0, 0))
    /\ UNCHANGED dvars

(***************************************************************************)
(* The director: Director::run_show (director.rs) and the threads of main  *)
(* that feed its channel.  status holds the position of the show thread:   *)
(*   "loading"      at the top of the outer loop, about to open the file   *)
(*   "configuring"  at the top of the 'load loop, about to build the state *)
(*   "running"      waiting in recv_timeout                                *)
(*   "exited"       run_show returned Ok                                   *)
(*   "failed"       run_show returned Err                                  *)
(*   "panic"        the thread panicked                                    *)
(* The calls run_show makes on its show state (new, configure_receivers,   *)
(* process_midi, the tick) are the runtime's of showstate.rs.              *)
(***************************************************************************)
\* the ghost record of a received MIDI buffer
MidiOp(buf) ==
    IF LiveEvent_parse(buf) = None THEN Op("malformed", 0, 0, 0)
    ELSE LET ev == Unwrap(LiveEvent_parse(buf)) IN Op(ev.kind, ev.channel, ev.a, ev.b)

\* a step of the show thread that calls nothing on the show state
Skip(o, next) ==
    /\ op' = o
    /\ status' = next
    /\ result' = "ok"
    /\ sent' = <<>>
    /\ calls' = <<>>
    /\ wake' = None
    /\ UNCHANGED <<receiver_state, clip_state, sustain, pending_off, last_effect,
                   last_lights_out, now, config, order, fail_in>>

\* run_show after configure_receivers(..)? and process_midi(..)?: an Err
\* leaves the function
CommitMidi(c, o) ==
    /\ CommitState(c, o)
    /\ status' = IF c.res = "ok" THEN "running" ELSE IF c.res = "err" THEN "failed" ELSE c.res

\* run_show after process_tick().unwrap(): an Err panics
CommitTick(c, o) ==
    /\ CommitState(c, o)
    /\ status' = IF c.res = "ok" THEN "running" ELSE IF c.res = "err" THEN "panic" ELSE c.res

\* the top of the outer loop: File::open(&show_path)? and serde_json::from_reader
Load(outcome) ==
    /\ status = "loading"
    /\ Skip(Op(outcome, 0, 0, 0), IF outcome = "open_fails" THEN "failed" ELSE "configuring")
    /\ show_loaded' = (outcome = "load_ok")
    /\ UNCHANGED <<rx, handled, main_loop>>

\* the top of the 'load loop: ShowState::new and configure_receivers(..)?
Configure ==
    /\ status = "configuring"
    /\ IF show_loaded
       THEN \E c \in {configure_receivers(FreshCtx(Ctx, now))} :
               CommitMidi(c, Op("configure", 0, 0, 0))
       ELSE Skip(Op("configure", 0, 0, 0), "running")
    /\ UNCHANGED dvars

\* a message that leaves the show running although it asks for the exit
AfterMessage_no_exit(message) ==
    CASE message.kind = "Reload" -> "loading"
      [] message.kind = "ReInitialize" -> "configuring"
      [] OTHER -> "running"

\* where the show thread goes on a message that is no MIDI
AfterMessage(message) ==
    CASE message.kind = "Reload" -> "loading"
      [] message.kind = "ReInitialize" -> "configuring"
      [] message.kind = "Shutdown" -> "exited"
      [] OTHER -> "running"

\* recv_timeout returned Ok(message)
Recv ==
    /\ status = "running"
    /\ rx # <<>>
    /\ rx' = Tail(rx)
    /\ handled' = Some(Head(rx))
    /\ IF Head(rx).kind = "MidiMessage" /\ show_loaded
       THEN \E c \in {process_midi(Ctx, order, config, Head(rx).buf, now)} :
               CommitMidi(c, MidiOp(Head(rx).buf))
       ELSE Skip(Op(Head(rx).kind, 0, 0, 0), AfterMessage(Head(rx)))
    /\ Len(pending_off') <= MaxPending
    /\ UNCHANGED <<show_loaded, main_loop, hist, ticks, advances>>

\* recv_timeout returned Err(Timeout)
Timeout ==
    /\ status = "running"
    /\ rx = <<>>
    /\ IF show_loaded
       THEN \E c \in {tick(Ctx, order, config, now)} : CommitTick(c, Op("tick", 0, 0, 0))
       ELSE Skip(Op("tick", 0, 0, 0), "running")
    /\ UNCHANGED dvars

Alive == status \in {"loading", "configuring", "running"}

\* the MIDI callback of main: midi_tx.send(MidiMessage { ts, buf })
PostMidi(buf) ==
    /\ Alive
    /\ Len(rx) < config.channel_buf_depth
    /\ rx' = Append(rx, MidiMessage(buf))
    /\ UNCHANGED <<receiver_state, clip_state, sustain, pending_off, last_effect,
                   last_lights_out, now, config, order, fail_in, status, op, result,
                   sent, calls, wake, hist, ticks, advances, show_loaded, handled, main_loop>>

\* main's signal loop: SIGHUP sends Reload, SIGINT or SIGTERM sends Shutdown
\* and leaves the loop
PostSignal(message) ==
    /\ Alive
    /\ main_loop = "signals"
    /\ Len(rx) < config.channel_buf_depth
    /\ rx' = Append(rx, message)
    /\ main_loop' = IF message.kind = "Shutdown" THEN "joining" ELSE "signals"
    /\ UNCHANGED <<receiver_state, clip_state, sustain, pending_off, last_effect,
                   last_lights_out, now, config, order, fail_in, status, op, result,
                   sent, calls, wake, hist, ticks, advances, show_loaded, handled>>

\* the radio stops working: every later Radio::send returns an Err
RadioFault ==
    /\ Alive
    /\ fail_in = NoFail
    /\ fail_in' = 0
    /\ UNCHANGED <<receiver_state, clip_state, sustain, pending_off, last_effect,
                   last_lights_out, now, config, order, status, op, result,
                   sent, calls, wake, hist, ticks, advances>>
    /\ UNCHANGED dvars

(***************************************************************************)
(* Specifications.                                                         *)
(***************************************************************************)
\* the clips in either order, the receiver cells in the order of their ids
ClipOrdersOnly ==
    {o \in Orders : o.receivers = <<80, 81, 82>> /\ o.clips[3] = "third" /\ ~o.drain_descending}

\* Spec: the show driven by live MIDI (no sustain pedal) and by the timer
Init == InitWith(ShortWindow, ClipOrdersOnly)

Next ==
    \/ \E key \in {60, 61, 62} : NoteOn(0, key) /\ UNCHANGED <<hist, ticks, advances>>
    \/ \E key \in {60, 61, 62} : NoteOff(0, key) /\ UNCHANGED <<hist, ticks, advances>>
    \/ \E cc \in {20, 21}, v \in {0, 127} :
          ControlChange(0, cc, v) /\ UNCHANGED <<hist, ticks, advances>>
    \/ Tick /\ UNCHANGED <<hist, ticks, advances>>
    \/ Advance(500) /\ UNCHANGED <<hist, ticks, advances>>

Spec == Init /\ [][Next]_vars

\* SpecApi: direct calls of activate and deactivate, interleaved with ticks at one instant; hist holds the calls made
\* since the last tick (at most two)
\* the receiver cells in ascending and in descending order of their ids; the
\* clip maps in one order
ReceiverOrdersOnly ==
    {o \in Orders : /\ o.receivers \in {<<80, 81, 82>>, <<82, 81, 80>>}
                    /\ o.clips = <<"intro", "second", "third">> \o ExtraClips /\ ~o.drain_descending}

InitApi == InitWith(ShortWindow, ReceiverOrdersOnly)

\* the mappings called directly: the first five and the two bound to clip intro
ApiIds == {1, 2, 3, 4, 5, 7, 11}

Call(what, id) == [op |-> what, id |-> id]

NextApi ==
    \/ \E id \in ApiIds :
          /\ ApiActivate(id)
          /\ hist' = Last2(Append(hist, Call("activate", id)))
          /\ UNCHANGED <<ticks, advances>>
    \/ \E id \in ApiIds :
          /\ ApiDeactivate(id)
          /\ hist' = Last2(Append(hist, Call("deactivate", id)))
          /\ UNCHANGED <<ticks, advances>>
    \/ Tick /\ hist' = <<>> /\ UNCHANGED <<ticks, advances>>

SpecApi == InitApi /\ [][NextApi]_vars

\* SpecSustain: notes, a mapped controller and the sustain pedal
InitSustain == InitWith(ShortWindow, ClipOrdersOnly)

NextSustain ==
    \/ \E key \in {60, 61} : NoteOn(0, key) /\ UNCHANGED <<hist, ticks, advances>>
    \/ \E key \in {60, 61} : NoteOff(0, key) /\ UNCHANGED <<hist, ticks, advances>>
    \/ \E cc \in {SUSTAIN_CONTROLLER, 20}, v \in {0, 127} :
          ControlChange(0, cc, v) /\ UNCHANGED <<hist, ticks, advances>>

SpecSustain == InitSustain /\ [][NextSustain]_vars

\* SpecLightsOut: the lights-out timer with one note; ticks logs every tick
\* since the last MIDI event: the idle time it saw, whether it found every
\* receiver and clip idle, and how many lights-out packets it sent
InitLightsOut == InitWith(LongWindow, ClipOrdersOnly)

CountOff(packets) == Len(SelectSeq(packets, LAMBDA p : p = GLOBAL_OFF_PACKET))

Idle(rs, cs) == (\A r \in DOMAIN rs : rs[r] = INACTIVE) /\ (\A n \in DOMAIN cs : ~cs[n].playing)

NextLightsOut ==
    \/ NoteOn(0, 60) /\ ticks' = <<>> /\ UNCHANGED <<hist, advances>>
    \/ NoteOff(0, 60) /\ ticks' = <<>> /\ UNCHANGED <<hist, advances>>
    \/ /\ Len(ticks) < MaxTicks
       /\ Tick
       /\ ticks' = Append(ticks, [idle |-> now - last_effect,
                                  free |-> Idle(receiver_state', clip_state'),
                                  off |-> CountOff(sent')])
       /\ UNCHANGED <<hist, advances>>
    \/ \E dt \in {100, 500, 1900} :
          /\ advances < MaxAdvances
          /\ Advance(dt)
          /\ advances' = advances + 1
          /\ UNCHANGED <<hist, ticks>>

SpecLightsOut == InitLightsOut /\ [][NextLightsOut]_vars

\* SpecControl: controllers of the control channel with every kind of value,
\* and triggers that several mappings are bound to
ControlValues == {0, 1, 126, 127}

InitControl == InitWith(ShortWindow, ClipOrdersOnly)

NextControl ==
    \/ NoteOn(0, 65) /\ UNCHANGED <<hist, ticks, advances>>
    \/ NoteOff(0, 65) /\ UNCHANGED <<hist, ticks, advances>>
    \/ \E cc \in {SUSTAIN_CONTROLLER, TEST_CONTROLLER, 103, 23}, v \in ControlValues :
          ControlChange(0, cc, v) /\ UNCHANGED <<hist, ticks, advances>>

SpecControl == InitControl /\ [][NextControl]_vars

\* SpecDirector: the show thread with a working radio and a show file that
\* loads; live MIDI, reloads and the timer
DirectorConfig == [ShortWindow EXCEPT !.channel_buf_depth = 1]

\* run_show has not opened the show file yet
InitDirector ==
    InitAt(DirectorConfig, {o \in ClipOrdersOnly : o.clips = <<"intro", "second", "third">> \o ExtraClips},
           "loading", FALSE)

DirectorBufs == {<<144, 60, 100>>, <<128, 60, 0>>, <<176, 64, 127>>, <<176, 20, 127>>,
                 <<176, 103, 127>>}

NextDirector ==
    \/ Load("load_ok") /\ UNCHANGED <<hist, ticks, advances>>
    \/ Configure /\ UNCHANGED <<hist, ticks, advances>>
    \/ Recv
    \/ Timeout /\ UNCHANGED <<hist, ticks, advances>>
    \/ Advance(500) /\ UNCHANGED <<hist, ticks, advances>>
    \/ \E buf \in DirectorBufs : PostMidi(buf)
    \/ PostSignal(Reload)

SpecDirector == InitDirector /\ [][NextDirector]_vars

\* SpecLoop: the life of the show thread: a show file that may be missing
\* or invalid, a radio that may stop working, a MIDI buffer that may be cut
\* short, reloads and the shutdown.  The thread is scheduled again and again
\* while it has a step to take
MaxQueue == 2

LoopConfig == [ShortWindow EXCEPT !.channel_buf_depth = MaxQueue]

InitLoop ==
    InitAt(LoopConfig, {o \in ClipOrdersOnly : o.clips = <<"intro", "second", "third">> \o ExtraClips},
           "loading", FALSE)

LoopBufs == {<<144, 60, 100>>, <<144, 60>>}

LoadOutcomes == {"load_ok", "open_fails", "parse_fails"}

DirectorStep ==
    \/ \E outcome \in LoadOutcomes : Load(outcome) /\ UNCHANGED <<hist, ticks, advances>>
    \/ Configure /\ UNCHANGED <<hist, ticks, advances>>
    \/ Recv
    \/ Timeout /\ UNCHANGED <<hist, ticks, advances>>

NextLoop ==
    \/ DirectorStep
    \/ \E buf \in LoopBufs : PostMidi(buf)
    \/ \E message \in {Reload, Shutdown} : PostSignal(message)
    \/ RadioFault /\ UNCHANGED <<hist, ticks, advances>>

SpecLoop == InitLoop /\ [][NextLoop]_vars /\ WF_vars(DirectorStep)

\* the clip "intro" on its own: the clip mapping m4 (tempo 120) starts it,
\* then ticks and the passing of time in steps of 250 ms play it.  hist logs
\* the start and every packet sent to receiver B, the target of the mapping
\* of the clip's MappingOn step, with the time since the start.
ToB(p) == p.recipients = <<81>> /\ p.payload.kind = "Show"
Elapsed == advances * 250
Logged(packets, at) ==
    [i \in 1..Len(SelectSeq(packets, ToB)) |->
        [ev |-> IF IsOff(SelectSeq(packets, ToB)[i]) THEN "off" ELSE "on", at |-> at]]

InitClip == InitWith(LongWindow, Orders)

StartIntro ==
    /\ hist = <<>>
    /\ ControlChange(0, 20, 127)
    /\ hist' = <<[ev |-> "start", at |-> 0]>> \o Logged(sent', 0)
    /\ UNCHANGED <<ticks, advances>>

TickClip ==
    /\ hist # <<>>
    /\ Tick
    /\ hist' = hist \o Logged(sent', Elapsed)
    /\ UNCHANGED <<ticks, advances>>

NextClip ==
    \/ StartIntro
    \/ TickClip
    \/ /\ hist # <<>>
       /\ advances < MaxAdvances
       /\ Advance(250)
       /\ advances' = advances + 1
       /\ UNCHANGED <<hist, ticks>>

SpecClip == InitClip /\ [][NextClip]_vars

\* the three clips driven by their clip mappings (controllers 20, 21 and 24)
\* and by the timer: clips are started, restarted while they play, ended,
\* stopped by their mapping's off event, by their own Stop step (third) and
\* by another clip's StopOther step (second stops intro)
InitStop ==
    InitWith(ShortWindow, {o \in Orders : o.receivers = <<80, 81, 82>> /\ ~o.drain_descending})

NextStop ==
    \/ \E cc \in {20, 21, 24}, v \in {0, 127} :
          ControlChange(0, cc, v) /\ UNCHANGED <<hist, ticks, advances>>
    \/ Tick /\ UNCHANGED <<hist, ticks, advances>>
    \/ Advance(500) /\ UNCHANGED <<hist, ticks, advances>>

SpecStop == InitStop /\ [][NextStop]_vars

\* SpecSteps: the clips whose steps go wrong, started by their clip mappings
\* (controllers 25 to 29) and played by the timer
InitSteps ==
    InitWith(ShortWindow, {o \in ClipOrdersOnly : o.clips[1] = "intro"})

NextSteps ==
    \/ \E cc \in 25..29, v \in {0, 127} :
          ControlChange(0, cc, v) /\ UNCHANGED <<hist, ticks, advances>>
    \/ Tick /\ UNCHANGED <<hist, ticks, advances>>
    \/ Advance(500) /\ UNCHANGED <<hist, ticks, advances>>

SpecSteps == InitSteps /\ [][NextSteps]_vars

\* SpecPedal: the three clips played while the sustain pedal goes down and
\* up; the off event of intro's clip mapping is the live deactivation the
\* pedal holds back
InitPedal ==
    InitWith(ShortWindow, {o \in ClipOrdersOnly : o.clips[1] = "intro"})

NextPedal ==
    \/ \E cc \in {20, 21, 24, SUSTAIN_CONTROLLER}, v \in {0, 127} :
          /\ cc \in {21, 24} => v = 127
          /\ ControlChange(0, cc, v)
          /\ UNCHANGED <<hist, ticks, advances>>
    \/ Tick /\ UNCHANGED <<hist, ticks, advances>>
    \/ Advance(500) /\ UNCHANGED <<hist, ticks, advances>>

SpecPedal == InitPedal /\ [][NextPedal]_vars

\* the radio starts to fail: n more sends succeed, every later one returns Err
RadioFails(n) ==
    /\ status = "running"
    /\ fail_in = NoFail
    /\ fail_in' = n
    /\ UNCHANGED <<receiver_state, clip_state, sustain, pending_off, last_effect,
                   last_lights_out, now, config, order, status, op, result,
                   sent, calls, wake>>
    /\ UNCHANGED dvars

\* the radio works again
RadioRecovers ==
    /\ status = "running"
    /\ fail_in # NoFail
    /\ fail_in' = NoFail
    /\ UNCHANGED <<receiver_state, clip_state, sustain, pending_off, last_effect,
                   last_lights_out, now, config, order, status, op, result,
                   sent, calls, wake>>
    /\ UNCHANGED dvars

\* SpecFault: two effect mappings called directly and through their notes,
\* the sustain pedal, and a radio that fails and recovers, some time after
\* the runtime was built.  hist holds the last two direct calls with what
\* they returned
InitFault ==
    InitWith(ShortWindow, {o \in ClipOrdersOnly : o.clips[1] = "intro"})

Returned(what, id) == [op |-> what, id |-> id, res |-> result']

NextFault ==
    \/ \E id \in {1, 2} :
          /\ ApiActivate(id)
          /\ hist' = Last2(Append(hist, Returned("activate", id)))
          /\ UNCHANGED <<ticks, advances>>
    \/ \E id \in {1, 2} :
          /\ ApiDeactivate(id)
          /\ hist' = Last2(Append(hist, Returned("deactivate", id)))
          /\ UNCHANGED <<ticks, advances>>
    \/ \E key \in {60, 61} : NoteOff(0, key) /\ hist' = <<>> /\ UNCHANGED <<ticks, advances>>
    \/ \E v \in {0, 127} :
          ControlChange(0, SUSTAIN_CONTROLLER, v) /\ hist' = <<>> /\ UNCHANGED <<ticks, advances>>
    \/ \E n \in {0, 1} : RadioFails(n) /\ UNCHANGED <<hist, ticks, advances>>
    \/ RadioRecovers /\ UNCHANGED <<hist, ticks, advances>>
    \/ /\ op.kind \in {"init", "advance"}
       /\ advances < MaxAdvances
       /\ Advance(500)
       /\ advances' = advances + 1
       /\ UNCHANGED <<hist, ticks>>

SpecFault == InitFault /\ [][NextFault]_vars

\* The resolver and the packet functions are pure: their specifications draw
\* input in Init (op holds the call and its arguments) and apply the
\* function once (result holds what it returned, None before the call).
pvars == <<receiver_state, clip_state, sustain, pending_off, last_effect, last_lights_out,
           now, config, order, fail_in, status, op, sent, calls, wake, hist,
           ticks, advances, rx, show_loaded, handled, main_loop>>

InitPure(input) ==
    /\ receiver_state = [r \in ReceiverIds |-> INACTIVE]
    /\ clip_state = [n \in ClipNames |-> ClipNew(0)]
    /\ sustain = FALSE
    /\ pending_off = <<>>
    /\ last_effect = 0
    /\ last_lights_out = 0
    /\ now = 0
    /\ config = ShortWindow
    /\ order = CHOOSE o \in Orders : TRUE
    /\ fail_in = NoFail
    /\ status = "loading"
    /\ op = input
    /\ result = None
    /\ sent = <<>>
    /\ calls = <<>>
    /\ wake = None
    /\ hist = <<>>
    /\ ticks = <<>>
    /\ advances = 0
    /\ rx = <<>>
    /\ show_loaded = FALSE
    /\ handled = None
    /\ main_loop = "signals"

\* the resolver on show files: one mapping whose target list, color and midi
\* element are drawn, at the top level or in a MappingOn step of a clip
MaxTargets == 2
JsonTargets ==
    {JNum(0), JNum(80), JNum(83), JNum(256), JNum(-1),
     JStr("A"), JStr("G"), JStr("Z"), JBool(TRUE), JNull}
TargetLists(max) ==
    {None} \cup {Some(t) : t \in UNION {[1..n -> JsonTargets] : n \in 0..max}}
DrawnMapping(midi, targets, color) ==
    [LightMapping(1, "m1", midi, EffectLight(Pop), None, targets, None) EXCEPT !.color = color]
GoodMapping == LightMapping(2, "m2", Some(Note(0, 61)), EffectLight(Pop), None, None, None)
DrawnShow(m, embedded) ==
    IF embedded
    THEN ShowDefinition(ShowReceivers, ShowColors, <<GoodMapping>>,
                        [n \in {"intro"} |-> <<MappingOn(m), End>>])
    ELSE ShowDefinition(ShowReceivers, ShowColors, <<m>>, <<>>)

LoadShow ==
    /\ op.kind = "resolve"
    /\ result = None
    /\ result' = Some(Resolve(op.a))
    /\ UNCHANGED pvars

\* receiver lists: up to MaxReceivers receivers with ids 80, 81, ..., each with
\* or without a name and a group name (a group can be named like a receiver
\* or like a receiver id), and lists of ManyGroups - 1 and ManyGroups
\* receivers that are each in a group of their own
MaxReceivers == 3
ManyGroups == 71
ReceiverNames == {None, Some("A")}
ReceiverGroups == {None, Some("G"), Some("H"), Some("A"), Some("81")}
DrawnReceivers(n, f) ==
    [i \in 1..n |-> [id |-> 79 + i, name |-> f[i][1], group_name |-> f[i][2],
                     led_count |-> 30]]
OwnGroups(n) ==
    [i \in 1..n |-> [id |-> 79 + i, name |-> None,
                     group_name |-> Some(ToString(1000 + i)), led_count |-> 30]]

\* the receiver loop of ShowState::new on a drawn receiver list, one receiver
\* at a step: result holds the tables after the receivers before next, and
\* the loop is over when next is past the list
NewShowState ==
    /\ op.kind = "new"
    /\ IF result = None THEN TRUE ELSE Unwrap(result).next <= Len(op.a.receivers)
    /\ LET next == IF result = None THEN 1 ELSE Unwrap(result).next
           acc == IF result = None
                  THEN [target_lookup |-> EmptyMap, group_members |-> EmptyMap,
                        group_id |-> GROUP_ID_START]
                  ELSE Unwrap(result).acc
       IN result' = Some([acc |-> PreprocessReceivers(<<op.a.receivers[next]>>, 1, acc),
                          next |-> next + 1])
    /\ UNCHANGED pvars

InitResolve ==
    \/ \E midi \in {None, Some(Note(0, 60))}, targets \in TargetLists(MaxTargets),
          color \in {"red", "green"}, embedded \in BOOLEAN :
          InitPure(Op("resolve", DrawnShow(DrawnMapping(midi, targets, color), embedded), 0, 0))
    \/ \E n \in 1..MaxReceivers :
          \E f \in [1..n -> ReceiverNames \X ReceiverGroups] :
             InitPure(Op("new", ShowDefinition(DrawnReceivers(n, f), ShowColors, <<>>, <<>>), 0, 0))
    \/ \E n \in {ManyGroups - 1, ManyGroups} :
          InitPure(Op("new", ShowDefinition(OwnGroups(n), ShowColors, <<>>, <<>>), 0, 0))
NextResolve == LoadShow \/ NewShowState
SpecResolve == InitResolve /\ [][NextResolve]_vars

\* the packet codec on packets the runtime can build: every recipient list of
\* up to MaxRecipients ids, and the target lists of mappings that name
\* receiver "A" 49, 50, 241 and 242 times
MaxRecipients == 2
RecipientIds == {5, 10, 79, 80, 255}
LongLists == {49, 50, 241, 242}
RecipientLists(max) ==
    UNION {[1..n -> RecipientIds] : n \in 0..max}
    \cup {[i \in 1..n |-> target_lookup["A"]] : n \in LongLists}
Payloads ==
    {OFF_PACKET, TEST_PACKET,
     ShowPayload(1, [h |-> 0, s |-> 255, v |-> 255], 10, 255, 20, 0, 0, 120),
     ShowPayload(3, [h |-> 170, s |-> 255, v |-> 128], 0, 5, 127, 5, 1, 90),
     Reset, SetGroup(10), SetLedCount(300)}

\* Radio::send: marshal with the transmitter id, the packet id and flags 0
RadioSend ==
    /\ op.kind = "marshal"
    /\ result = None
    /\ result' = Some(marshal(op.a, op.b, op.v, 0))
    /\ UNCHANGED pvars

InitMarshal ==
    \E r \in RecipientLists(MaxRecipients), p \in Payloads, id \in {0, 255} :
        InitPure(Op("marshal", Packet(r, p), 1, id))
NextMarshal == RadioSend
SpecMarshal == InitMarshal /\ [][NextMarshal]_vars

\* the duration encodings on pairs of durations a <= b (milliseconds) around
\* the band limits and around the values where the 7-bit field is full
DurationSamples ==
    {0, 1, 9, 10, 99, 100, 1279, 1280, 1299, 1300, 12699, 12700, 12799, 12800,
     12899, 127999, 128000, 200000}

\* activate_effect encoding attack / release and sustain of a mapping
EncodeDurations ==
    /\ op.kind = "duration"
    /\ result = None
    /\ result' = Some([adr |-> <<convert_millis_adr(op.a), convert_millis_adr(op.b)>>,
                       sustain |-> <<convert_millis_sustain(op.a),
                                     convert_millis_sustain(op.b)>>])
    /\ UNCHANGED pvars

InitDuration ==
    \E a \in DurationSamples, b \in DurationSamples :
        a <= b /\ InitPure(Op("duration", a, b, 0))
NextDuration == EncodeDurations
SpecDuration == InitDuration /\ [][NextDuration]_vars

(***************************************************************************)
(* Properties.                                                             *)
(***************************************************************************)
\* the show file's record of a receiver
ReceiverRecord(r) == CHOOSE x \in SeqToSet(ShowReceivers) : x.id = r

\* read from the show file alone: the mapping names no target (every
\* receiver), or names the receiver by id, by name or by its group
Targeted(m, r) ==
    LET ts == IF m.targets = None THEN <<>> ELSE Unwrap(m.targets)
        rec == ReceiverRecord(r)
    IN \/ ts = <<>>
       \/ \E i \in 1..Len(ts) :
             \/ ts[i].json = "Number" /\ ts[i].n = r
             \/ ts[i].json = "String"
                /\ (rec.name = Some(ts[i].s) \/ rec.group_name = Some(ts[i].s))

TargetedTable == [id \in MappingIds |-> {r \in ReceiverIds : Targeted(Source(id), r)}]
TargetedReceivers(id) == TargetedTable[id]

IsEffect(id) == Source(id).light.kind = "Effect"
OneShot(id) == Source(id).one_shot = Some(TRUE)

OffTo(recipients) == Packet(recipients, OFF_PACKET)

\* C1: in every reachable state each receiver cell's trigger_mapping is 0 or
\* the id of a mapping that targets that receiver
C1_OwnerTargetsReceiver ==
    \A r \in ReceiverIds :
        \/ receiver_state[r] = INACTIVE
        \/ \E m \in AllMappings : m.id = receiver_state[r] /\ Targeted(m, r)

\* a live mapping owns A, a mapping activated by a clip step owns B
C1_Witness == receiver_state[80] = 2 /\ receiver_state[81] = 11

\* C2: for non-one-shot effect mappings m1 and m2 that share receivers, after
\* activate(m1), activate(m2) the call deactivate(m1) sends one off packet
\* addressed to exactly the receivers m1 still owns (none at all when it owns
\* none); the receivers of m2 keep trigger_mapping = m2 and are in no off packet
C2_DeactivateSparesCaptured ==
    [][\A m1, m2 \in ApiIds :
         (/\ hist = <<Call("activate", m1), Call("activate", m2)>>
          /\ hist' = <<Call("activate", m2), Call("deactivate", m1)>>
          /\ m1 # m2 /\ IsEffect(m1) /\ IsEffect(m2) /\ ~OneShot(m1) /\ ~OneShot(m2)
          /\ TargetedReceivers(m1) \cap TargetedReceivers(m2) # {})
         => LET still == {r \in ReceiverIds : receiver_state[r] = m1}
            IN /\ still = TargetedReceivers(m1) \ TargetedReceivers(m2)
               /\ IF still = {} THEN sent' = <<>>
                  ELSE /\ Len(sent') = 1
                       /\ IsOff(sent'[1])
                       /\ Len(sent'[1].recipients) = Cardinality(still)
                       /\ SeqToSet(sent'[1].recipients) = still
               /\ \A r \in TargetedReceivers(m2) : receiver_state'[r] = m2
               /\ \A r \in still : receiver_state'[r] = INACTIVE
      ]_vars

\* m1 (group G) then m2 (receiver A), then deactivate(m1): the off packet went to B
C2_Witness ==
    /\ hist = <<Call("activate", 2), Call("deactivate", 1)>>
    /\ sent = <<OffTo(<<81>>)>>
    /\ receiver_state[80] = 2
    /\ receiver_state[81] = INACTIVE

\* C3: for a non-one-shot effect mapping m, activate(m) directly followed by
\* deactivate(m) leaves every receiver m targets with trigger_mapping = 0 and
\* sends exactly one off packet, addressed like the on packet to m's resolved
\* targets
C3_ActivateThenDeactivate ==
    [][\A m \in ApiIds :
         (/\ op' = Op("deactivate", m, 0, 0) /\ op = Op("activate", m, 0, 0)
          /\ hist' = <<Call("activate", m), Call("deactivate", m)>>
          /\ IsEffect(m) /\ ~OneShot(m))
         => /\ \A r \in TargetedReceivers(m) : receiver_state'[r] = INACTIVE
            /\ Len(sent) = 1
            /\ sent' = <<OffTo(sent[1].recipients)>>
            /\ sent' = <<OffTo(resolved_targets(Source(m)))>>
      ]_vars

\* activate(m1), deactivate(m1): one off packet to group G (id 10), not to A and B
C3_Witness ==
    /\ hist = <<Call("activate", 1), Call("deactivate", 1)>>
    /\ sent = <<OffTo(<<10>>)>>
    /\ receiver_state[80] = INACTIVE /\ receiver_state[81] = INACTIVE

\* C4: deactivate(m) called again right after deactivate(m) sends no packet
\* and changes no receiver cell and no clip
C4_DeactivateIdempotent ==
    [][(/\ op.kind = "deactivate" /\ op'.kind = "deactivate" /\ op'.a = op.a
        /\ Len(hist') = 2 /\ hist'[1] = hist'[2])
       => /\ sent' = <<>>
          /\ receiver_state' = receiver_state
          /\ clip_state' = clip_state
      ]_vars

\* deactivate(m4) twice after clip intro had activated its mapping: the first
\* call stopped the clip and released B, the second found nothing to do
C4_Witness ==
    /\ hist = <<Call("deactivate", 4), Call("deactivate", 4)>>
    /\ op = Op("deactivate", 4, 0, 0)
    /\ sent = <<>>
    /\ ~clip_state["intro"].playing

\* C5 (as stated): activating a one_shot effect mapping leaves every receiver
\* cell it targets with the trigger_mapping it held before
C5_OneShotKeepsOwner ==
    [][\A m \in ApiIds :
         (op' = Op("activate", m, 0, 0) /\ result' = "ok" /\ IsEffect(m) /\ OneShot(m))
         => \A r \in TargetedReceivers(m) : receiver_state'[r] = receiver_state[r]
      ]_vars

\* C5 (amended): activating a one_shot effect mapping leaves every receiver
\* cell it targets with trigger_mapping = 0, whoever owned it before, and
\* every other cell unchanged
C5_OneShotClearsOwner ==
    [][\A m \in ApiIds :
         (op' = Op("activate", m, 0, 0) /\ result' = "ok" /\ IsEffect(m) /\ OneShot(m))
         => /\ \A r \in TargetedReceivers(m) : receiver_state'[r] = INACTIVE
            /\ \A r \in ReceiverIds \ TargetedReceivers(m) :
                  receiver_state'[r] = receiver_state[r]
      ]_vars

\* m1 owned A and B, then the one-shot m3 was activated on the same group
C5_Witness ==
    /\ hist = <<Call("activate", 1), Call("activate", 3)>>
    /\ receiver_state[80] = INACTIVE /\ receiver_state[81] = INACTIVE

\* C6: deactivate(m) of a one_shot mapping sends no packet, changes no
\* receiver cell and stops no clip
C6_OneShotDeactivateNoOp ==
    [][\A m \in ApiIds :
         (op' = Op("deactivate", m, 0, 0) /\ OneShot(m))
         => /\ sent' = <<>>
            /\ receiver_state' = receiver_state
            /\ clip_state' = clip_state
      ]_vars

\* the one-shot clip mapping m7 started clip intro, the clip played its first
\* step, and deactivate(m7) left the clip playing and B owned
C6_Witness ==
    /\ hist = <<Call("deactivate", 7)>>
    /\ clip_state["intro"].playing
    /\ receiver_state[81] = 11
    /\ sent = <<>>

\* the mapping ids a live MIDI event asks to deactivate
OffIds(o) ==
    IF o.kind = "NoteOff" THEN note_mappings(o.a, o.b)
    ELSE IF o.kind = "Controller" /\ o.v = 0 /\ ~IsSpecial(config, o.a, o.b)
         THEN controller_mappings(o.a, o.b)
         ELSE <<>>

SustainRelease == Op("Controller", config.midi_control_channel, SUSTAIN_CONTROLLER, 0)

\* C7: while sustain is held a NoteOff or a mapped controller at 0 sends no
\* packet, changes no receiver cell and no clip, and appends its mapping ids
\* to pending_off; releasing sustain deactivates the buffered ids in the order
\* they were appended, clears sustain and empties pending_off
C7_SustainBuffersThenFlushes ==
    [][/\ (sustain /\ OffIds(op') # <<>>)
          => /\ sent' = <<>>
             /\ calls' = <<>>
             /\ receiver_state' = receiver_state
             /\ clip_state' = clip_state
             /\ pending_off' = pending_off \o OffIds(op')
             /\ sustain'
       /\ op' = SustainRelease
          => /\ calls' = [i \in 1..Len(pending_off) |-> Call("deactivate", pending_off[i])]
             /\ ~sustain'
             /\ pending_off' = <<>>
      ]_vars

\* m1 and m2 were released under sustain, m1 first: the pedal's release sent
\* m1's off packet (to B, A being m2's by then) and then m2's (to A)
C7_Witness ==
    /\ op = SustainRelease
    /\ calls = <<Call("deactivate", 1), Call("deactivate", 2)>>
    /\ sent = <<OffTo(<<81>>), OffTo(<<80>>)>>
    /\ ~sustain /\ pending_off = <<>>

\* C8: a tick broadcasts the lights-out packet only when no receiver cell is
\* owned, no clip is playing, the time since last_effect is inside the window
\* [open, close) and at least the period has passed since the last lights-out
C8_NoLightsOutWhileBusy ==
    [][(op'.kind = "tick" /\ CountOff(sent') > 0)
       => /\ \A r \in ReceiverIds : receiver_state'[r] = INACTIVE
          /\ \A n \in ClipNames : ~clip_state'[n].playing
          /\ config.lights_out_window_open <= now - last_effect'
          /\ now - last_effect' < config.lights_out_window_close
          /\ now - last_lights_out >= config.lights_out_period
      ]_vars

\* a tick inside the window, a period after the last lights-out, that sent
\* nothing because receiver A was owned
C8_Witness ==
    /\ op.kind = "tick" /\ sent = <<>>
    /\ receiver_state[80] # INACTIVE
    /\ config.lights_out_window_open <= now - last_effect
    /\ now - last_effect < config.lights_out_window_close
    /\ now - last_lights_out >= config.lights_out_period

\* the ticks of the scenario: idle times after last_effect, and the lights-out
\* packets each is to send
ScenarioIdle == <<1900, 2000, 2500, 3000>>
ScenarioOff == <<0, 1, 0, 1>>

ScenarioPrefix ==
    LET n == Min(Len(ticks), Len(ScenarioIdle))
    IN (\A i \in 1..n : ticks[i].idle = ScenarioIdle[i] /\ ticks[i].free)
       => \A i \in 1..n : ticks[i].off = ScenarioOff[i]

\* C9: a tick that finds no receiver owned, no clip playing, the idle time in
\* [open, close) and a period passed since the last lights-out broadcasts
\* exactly one Off packet and sets last_lights_out to now; with window
\* [2.0, 60.0) s and period 1.0 s, ticks at last_effect +1.9, +2.0, +2.5 and
\* +3.0 s send 0, 1, 0 and 1 of them
C9_LightsOutFires ==
    /\ [][(/\ op'.kind = "tick"
           /\ Idle(receiver_state', clip_state')
           /\ config.lights_out_window_open <= now - last_effect'
           /\ now - last_effect' < config.lights_out_window_close
           /\ now - last_lights_out >= config.lights_out_period)
          => /\ CountOff(sent') = 1
             /\ Len(sent') = 1
             /\ last_lights_out' = now
         ]_vars
    /\ []ScenarioPrefix

C9_Witness ==
    /\ Len(ticks) = 4
    /\ \A i \in 1..4 : /\ ticks[i].idle = ScenarioIdle[i]
                       /\ ticks[i].free
                       /\ ticks[i].off = ScenarioOff[i]

\* the time from now to the earliest step a playing clip has still to play
\* (None: no clip has one)
NextClipStepIn ==
    LET pending == {n \in ClipNames : clip_state[n].playing
                                      /\ clip_state[n].step < Len(ShowClips[n])}
        due(n) == IF clip_state[n].advance_at > now
                  THEN clip_state[n].advance_at - now ELSE 0
    IN IF pending = {} THEN None
       ELSE Some(due(CHOOSE n \in pending : \A k \in pending : due(n) <= due(k)))

\* C10: the duration tick returns is the minimum of the lights-out period and
\* the time until the earliest pending clip step
C10_WakeIsEarliestStep ==
    (op.kind = "tick" /\ result = "ok")
    => wake = Some(Min(config.lights_out_period,
                       UnwrapOr(NextClipStepIn, config.lights_out_period)))


\* the ids of the top-level mappings bound to a trigger, in the order of the show file
BoundIds(trigger) ==
    LET hits == SelectSeq(ShowMappings, LAMBDA m : m.midi = Some(trigger))
    IN [i \in 1..Len(hits) |-> hits[i].id]

CallsOf(what, ids) == [i \in 1..Len(ids) |-> Call(what, ids[i])]

RuntimeUnchanged ==
    UNCHANGED <<receiver_state, clip_state, sustain, pending_off, last_effect, last_lights_out>>

\* C11: on the control channel, controller 64 or 102 with any value is
\* handled as the reserved control only: no mapping is activated, the only
\* deactivations are the flush of the buffered ones on 64 = 0, and a mapping
\* bound to that controller is neither called nor made an owner
C11_ReservedNotDispatched ==
    [][(/\ op'.kind = "Controller"
        /\ op'.a = config.midi_control_channel
        /\ op'.b \in {SUSTAIN_CONTROLLER, TEST_CONTROLLER})
       => /\ calls' = IF op'.b = SUSTAIN_CONTROLLER /\ op'.v = 0
                      THEN CallsOf("deactivate", pending_off) ELSE <<>>
          /\ \A id \in SeqToSet(BoundIds(Controller(op'.a, op'.b))) :
                /\ \A i \in 1..Len(calls') : calls'[i].id # id
                /\ \A r \in ReceiverIds : receiver_state'[r] # id
          /\ (op'.b = TEST_CONTROLLER) =>
                /\ sent' = <<IF op'.v = 127 THEN GLOBAL_TEST_PACKET ELSE GLOBAL_OFF_PACKET>>
                /\ UNCHANGED <<receiver_state, sustain, pending_off>>
          /\ (op'.b = SUSTAIN_CONTROLLER /\ op'.v \notin {0, 127}) =>
                sent' = <<>> /\ RuntimeUnchanged]_vars

\* the sustain controller released with deactivations buffered, and a
\* mapping bound to controller 64 in the show
C11_Witness ==
    /\ op.kind = "Controller" /\ op.b = SUSTAIN_CONTROLLER /\ op.v = 0
    /\ calls # <<>>
    /\ BoundIds(Controller(0, SUSTAIN_CONTROLLER)) # <<>>
    /\ BoundIds(Controller(0, TEST_CONTROLLER)) # <<>>


\* C12: controller 103 with value 127 on the control channel is the reset
\* control: it is not dispatched to the mappings bound to it (no activate or
\* deactivate call, no show packet), and the show thread goes on to rebuild
\* its show state from the file and to configure the receivers again
C12_ResetControllerRebuilds ==
    [][(/\ op'.kind = "Controller"
        /\ op'.a = config.midi_control_channel
        /\ op'.b = 103
        /\ op'.v = 127)
       => /\ calls' = <<>>
          /\ sent' = <<>>
          /\ status' \in {"loading", "configuring"}]_vars


\* every id of ids is the subject of a call of this kind
EachCalled(what, ids, cs) ==
    \A j \in 1..Len(ids) : \E i \in 1..Len(cs) : cs[i] = Call(what, ids[j])

\* C13: a controller that is not reserved acts on every mapping bound to it
\* by its value: 127 activates each, 0 deactivates each (under sustain the
\* deactivations are buffered instead), and every other value (1..126)
\* sends nothing and changes nothing
C13_ControllerValues ==
    [][(/\ op'.kind = "Controller"
        /\ ~(op'.a = config.midi_control_channel
             /\ op'.b \in {SUSTAIN_CONTROLLER, TEST_CONTROLLER, 103}))
       => CASE op'.v = 127 ->
                 EachCalled("activate", BoundIds(Controller(op'.a, op'.b)), calls')
            [] op'.v = 0 /\ sustain ->
                 /\ pending_off' = pending_off \o BoundIds(Controller(op'.a, op'.b))
                 /\ calls' = <<>> /\ sent' = <<>>
                 /\ UNCHANGED <<receiver_state, clip_state, sustain>>
            [] op'.v = 0 /\ ~sustain ->
                 EachCalled("deactivate", BoundIds(Controller(op'.a, op'.b)), calls')
            [] OTHER ->
                 calls' = <<>> /\ sent' = <<>> /\ RuntimeUnchanged]_vars

\* a value between 1 and 126 arrives while a mapping bound to the
\* controller owns a receiver
C13_Witness ==
    /\ op.kind = "Controller" /\ op.b = 23 /\ op.v \in 1..126
    /\ \E r \in ReceiverIds :
          receiver_state[r] \in SeqToSet(BoundIds(Controller(op.a, op.b)))

\* C14: when several mappings are bound to one trigger, a note-on or a
\* controller at 127 activates every one of them, and a note-off or a
\* controller at 0 deactivates (under sustain: buffers) every one of them,
\* in the order of the show file, none skipped and none overwritten
C14_AllMappingsInOrder ==
    [][/\ (op'.kind = "NoteOn")
          => /\ calls' = CallsOf("activate", BoundIds(Note(op'.a, op'.b)))
             /\ Len(sent') = Len(calls')
       /\ (op'.kind = "NoteOff")
          => IF sustain
             THEN pending_off' = pending_off \o BoundIds(Note(op'.a, op'.b)) /\ calls' = <<>>
             ELSE calls' = CallsOf("deactivate", BoundIds(Note(op'.a, op'.b)))
       /\ (op'.kind = "Controller" /\ op'.b = 23 /\ op'.v = 127)
          => /\ calls' = CallsOf("activate", BoundIds(Controller(op'.a, op'.b)))
             /\ Len(sent') = Len(calls')
       /\ (op'.kind = "Controller" /\ op'.b = 23 /\ op'.v = 0)
          => IF sustain
             THEN /\ pending_off' = pending_off \o BoundIds(Controller(op'.a, op'.b))
                  /\ calls' = <<>>
             ELSE calls' = CallsOf("deactivate", BoundIds(Controller(op'.a, op'.b)))]_vars

\* one note-on has activated the two mappings bound to note 65, each on
\* its own receiver
C14_Witness ==
    /\ op.kind = "NoteOn" /\ op.b = 65
    /\ calls = <<Call("activate", 12), Call("activate", 13)>>
    /\ receiver_state[80] = 12 /\ receiver_state[82] = 13


IsReset(p) == p.payload.kind = "Control" /\ p.payload.command = "Reset"
IsPerReceiver(p) ==
    p.payload.kind = "Control" /\ p.payload.command \in {"SetGroup", "SetLedCount"}
Configured == op.kind = "configure" /\ show_loaded /\ result = "ok"

\* the positions of the packets with this command for this receiver
Positions(packets, command, id) ==
    {i \in 1..Len(packets) : /\ packets[i].payload.kind = "Control"
                              /\ packets[i].payload.command = command
                              /\ packets[i].recipients = <<id>>}

\* C15 as stated: in the sequence configure_receivers emits, every
\* per-receiver packet (SetGroup, SetLedCount) comes before the global
\* Reset: no Reset precedes a SetGroup or SetLedCount, and the sequence ends
\* with one broadcast Reset
C15_NoResetBeforeConfig ==
    Configured =>
        /\ \A i, j \in 1..Len(sent) : (IsReset(sent[i]) /\ IsPerReceiver(sent[j])) => j < i
        /\ sent # <<>> /\ sent[Len(sent)] = Packet(<<>>, Reset)
        /\ Cardinality({i \in 1..Len(sent) : IsReset(sent[i])}) = 1

\* C15 (amended): the sequence starts with a broadcast Reset and ends with
\* a broadcast Reset, and these are its only Resets; between them every
\* receiver gets, in show order, its SetGroup (if it has a group, with the
\* id of that group) and then its SetLedCount, each exactly once
C15_ResetFirstAndLast ==
    Configured =>
        /\ Len(sent) >= 2
        /\ sent[1] = Packet(<<>>, Reset) /\ sent[Len(sent)] = Packet(<<>>, Reset)
        /\ \A i \in 2..(Len(sent) - 1) : IsPerReceiver(sent[i])
        /\ \A k \in 1..Len(ShowReceivers) :
              LET r == ShowReceivers[k]
                  led == Positions(sent, "SetLedCount", r.id)
                  grp == Positions(sent, "SetGroup", r.id)
              IN /\ Cardinality(led) = 1
                 /\ \A i \in led : sent[i].payload.param = r.led_count
                 /\ Cardinality(grp) = IF IsSome(r.group_name) THEN 1 ELSE 0
                 /\ \A i \in grp : /\ i + 1 \in led
                                    /\ sent[i].payload.param \in GROUP_ID_START..79
                                    /\ \A k2 \in 1..Len(ShowReceivers) :
                                          \A i2 \in Positions(sent, "SetGroup",
                                                              ShowReceivers[k2].id) :
                                             (sent[i2].payload.param = sent[i].payload.param)
                                                <=> (ShowReceivers[k2].group_name = r.group_name)
                 /\ \A k2 \in 1..Len(ShowReceivers) :
                       k < k2 => \A i \in led :
                                    \A i2 \in Positions(sent, "SetLedCount",
                                                        ShowReceivers[k2].id) : i < i2

\* the receivers have been configured: two grouped ones and one without a group
C15_Witness ==
    /\ Configured
    /\ Len(sent) = 7
    /\ \E k \in 1..Len(ShowReceivers) : ShowReceivers[k].group_name = None


\* the runtime is that of a show state just built
FreshRuntime(rs, cs, sus, pending) ==
    /\ \A r \in DOMAIN rs : rs[r] = INACTIVE
    /\ \A n \in DOMAIN cs : ~cs[n].playing /\ cs[n].active_mappings = {}
    /\ ~sus
    /\ pending = <<>>

\* the prefix relation on sequences
IsPrefix(a, b) == Len(a) <= Len(b) /\ a = SubSeq(b, 1, Len(a))

\* C16: after the director has handled Reload, the previous runtime is gone
\* and a fresh one is in force before any later command is handled: while
\* the show is rebuilt no command is taken from the channel; the rebuild ends
\* with the configure sequence sent again and every receiver cell idle, no
\* clip playing, sustain off and no deactivation buffered; and until the next
\* command is handled this stays so, and no tick plays a step of an old clip
\* (a tick sends at most the lights-out packet)
C16_ReloadFreshRuntime ==
    [][/\ (status \in {"loading", "configuring"})
          => handled' = handled /\ IsPrefix(rx, rx')
       /\ (status = "configuring" /\ status' = "running" /\ show_loaded)
          => /\ Len(sent') >= 2 /\ sent'[Len(sent')] = Packet(<<>>, Reset)
             /\ \A k \in 1..Len(ShowReceivers) :
                   Positions(sent', "SetLedCount", ShowReceivers[k].id) # {}
       /\ (handled' = Some(Reload) /\ status' = "running" /\ show_loaded')
          => /\ FreshRuntime(receiver_state', clip_state', sustain', pending_off')
             /\ (op'.kind = "tick")
                   => /\ calls' = <<>>
                      /\ \A i \in 1..Len(sent') : sent'[i] = GLOBAL_OFF_PACKET]_vars

\* the show has been reloaded and configured, the timer has ticked since,
\* and the next command waits in the channel
C16_Witness ==
    /\ handled = Some(Reload)
    /\ status = "running" /\ show_loaded
    /\ op.kind = "tick"
    /\ rx # <<>>


\* main has sent Shutdown
ShutdownPosted == main_loop = "joining"

\* C17: every Shutdown posted is eventually followed by the exit of the
\* director loop; the loop takes the messages in the order they were queued
\* (always the oldest), so Shutdown is handled after everything queued ahead
\* of it; handling Shutdown ends the loop at once, and once the loop has
\* ended no message is taken, no tick runs and no packet is sent
C17_ShutdownExits ==
    /\ ShutdownPosted ~> ~Alive
    /\ [][/\ (Len(rx') < Len(rx))
             => rx' = Tail(rx) /\ handled' = Some(Head(rx))
          /\ (Len(rx') < Len(rx) /\ Head(rx) = Shutdown)
             => status' = "exited" /\ sent' = <<>> /\ calls' = <<>> /\ RuntimeUnchanged
          /\ ~Alive => UNCHANGED vars]_vars

\* the loop has exited on Shutdown, leaving behind a message queued after it
C17_Witness ==
    /\ status = "exited"
    /\ handled = Some(Shutdown)
    /\ rx # <<>>


\* C18: a radio send that fails while a MIDI message, a tick or
\* configure_receivers is being processed does not end the director loop:
\* after the failed call the show thread is still running its loop, so that
\* a later Reload or Shutdown is handled
C18_RadioErrorKeepsLoop ==
    (result = "err" /\ op.kind \in {"configure", "NoteOn", "NoteOff", "Controller", "tick"})
        => Alive

\* C19: a MidiMessage whose buffer does not parse as a MIDI event is
\* ignored: it sends no packet and the director loop keeps running
C19_MalformedMidiIgnored ==
    (op.kind = "malformed") => (status = "running" /\ sent = <<>>)

\* C20: when loading the show fails (the file cannot be opened, or its JSON
\* is invalid) the director loop does not exit: it goes on without a show
\* state, and a MIDI message received in that state is ignored
C20_LoadFailureParks ==
    /\ (op.kind \in {"open_fails", "parse_fails"}) => (Alive /\ ~show_loaded)
    /\ (op.kind = "MidiMessage") => (status = "running" /\ ~show_loaded /\ sent = <<>>)

\* the names a target string can match: receiver ids, receiver names, group names
KnownNames(show) ==
    UNION {{ToString(show.receivers[i].id)} \cup show.receivers[i].name
              \cup show.receivers[i].group_name : i \in 1..Len(show.receivers)}

BadTarget(show, t) ==
    \/ t.json = "String" /\ t.s \notin KnownNames(show)
    \/ t.json = "Number" /\ t.n \notin 1..255
    \/ t.json \notin {"Number", "String"}

MissingColor(show) == \E m \in MappingsOf(show) : m.color \notin DOMAIN show.colors
MissingTarget(show) ==
    \E m \in MappingsOf(show) :
        /\ m.targets # None
        /\ \E i \in 1..Len(Unwrap(m.targets)) : BadTarget(show, Unwrap(m.targets)[i])
MissingMidi(show) == \E i \in 1..Len(show.mappings) : show.mappings[i].midi = None

\* C21: resolving a show whose mapping names a color that is not in the
\* color map, or has a target string that matches no receiver id, receiver
\* name or group name, a numeric target outside 1..255, a target that is
\* neither a number nor a string, or whose top-level mapping has no midi
\* element, returns an error and produces no runtime state.
C21_BadShowIsAnError ==
    (/\ op.kind = "resolve"
     /\ result # None
     /\ MissingColor(op.a) \/ MissingTarget(op.a) \/ MissingMidi(op.a))
    => result = Some([res |-> "err", runtime |-> None])

C21_Witness ==
    /\ op.kind = "resolve"
    /\ result = Some([res |-> "err", runtime |-> None])
    /\ MissingMidi(op.a) /\ ~MissingColor(op.a) /\ ~MissingTarget(op.a)

\* the frame of the marshalled packet, and the bytes after its payload
Frame == Unwrap(result)
PayloadLen(packet) == IF packet.payload.kind = "Control" THEN 5 ELSE 10
Appended == SubSeq(Frame, 6 + PayloadLen(op.a), Len(Frame))
SingleReceiver(recipients) ==
    Len(recipients) = 1 /\ ~(recipients[1] >= 10 /\ recipients[1] < 80)

\* C22: a frame has the single recipient id as its destination byte and no
\* appended target bytes exactly when the recipient list has one entry that
\* is not in the group range 10..80; otherwise (empty list, more than one
\* entry, a single group id) the destination byte is 0xFF and the recipients
\* follow the payload verbatim and in order.
C22_UnicastExactlyForOneReceiver ==
    (op.kind = "marshal" /\ result # None) =>
        IF SingleReceiver(op.a.recipients)
        THEN Frame[2] = op.a.recipients[1] /\ Appended = <<>>
        ELSE Frame[2] = 255 /\ Appended = op.a.recipients

C22_Witness ==
    /\ op.kind = "marshal" /\ result # None
    /\ op.a.recipients = <<79>>
    /\ Frame[2] = 255 /\ Appended = <<79>>

\* reading a Show payload back from the ten bytes after the header
DecodeShow(b) ==
    ShowPayload(b[1], [h |-> b[2], s |-> b[3], v |-> b[4]], b[5], b[6], b[7], b[8], b[9], b[10])

ShowFrameLayout ==
    /\ Len(Frame) >= 15
    /\ Frame[3] = op.b /\ Frame[4] = op.v /\ Frame[5] = 0
    /\ DecodeShow(SubSeq(Frame, 6, 15)) = op.a.payload

\* C23: for every Show packet and recipient list the frame is the length
\* byte, the destination, from_id, pkt_id and flags, then the ten payload
\* bytes effect_id, h, s, v, attack, sustain, release, param1, param2, tempo;
\* decoding bytes 5..14 returns the tuple unchanged, and the first byte is
\* the frame length minus one.
C23_ShowFrameRoundTrip ==
    (op.kind = "marshal" /\ result # None /\ op.a.payload.kind = "Show") =>
        /\ ShowFrameLayout
        /\ Frame[1] = Len(Frame) - 1

\* the same for the frames whose length fits the length byte
C23_RoundTripWithinAByte ==
    (op.kind = "marshal" /\ result # None /\ op.a.payload.kind = "Show") =>
        /\ ShowFrameLayout
        /\ Len(Frame) <= 256 => Frame[1] = Len(Frame) - 1

\* C24: every frame handed to the radio is at most 64 bytes long, for every
\* show definition and reachable state, dynamic-off packets and mappings
\* with long target lists included.
C24_FrameFitsTheRadio ==
    (op.kind = "marshal" /\ result # None) => Len(Frame) <= FRAME_CAPACITY

\* the bands of the two encodings
SameAdrBand(a, b) == (a <= 1279 /\ b <= 1279) \/ (a >= 1280 /\ b >= 1280)
SameSustainBand(a, b) == (a >= 1 /\ b <= 12799) \/ (a >= 12800 /\ b >= 12800)
Encoded == Unwrap(result)

DurationBoundaries ==
    /\ op.a = 1279 => Encoded.adr[1] = 127
    /\ op.a = 1280 => Encoded.adr[1] = 140
    /\ op.a = 0 => Encoded.sustain[1] = 255
    /\ op.a = 1 => Encoded.sustain[1] = 0
    /\ op.a = 12800 => Encoded.sustain[1] = 140

\* C25: both one-byte duration encodings are non-decreasing in the duration
\* within each band (attack / release: 0..1279 and 1280 and above; sustain:
\* 1..12799 and 12800 and above) for every input, and at the band limits
\* adr(1279) = 127, adr(1280) = 140, sustain(0) = 255, sustain(1) = 0 and
\* sustain(12800) = 140.
C25_EncodingsMonotoneInBand ==
    (op.kind = "duration" /\ result # None) =>
        /\ SameAdrBand(op.a, op.b) => Encoded.adr[1] <= Encoded.adr[2]
        /\ SameSustainBand(op.a, op.b) => Encoded.sustain[1] <= Encoded.sustain[2]
        /\ DurationBoundaries

\* the same for the durations the 7-bit field can hold: attack and release
\* below 12.8 s, sustain below 128 s
C25_MonotoneBelowTheWrap ==
    (op.kind = "duration" /\ result # None) =>
        /\ (SameAdrBand(op.a, op.b) /\ op.b < 12800) => Encoded.adr[1] <= Encoded.adr[2]
        /\ (SameSustainBand(op.a, op.b) /\ op.b < 128000)
              => Encoded.sustain[1] <= Encoded.sustain[2]
        /\ DurationBoundaries

\* the receivers at which a group name is seen first, and the id the
\* resolver has for a group name
Drawn == op.a.receivers
FirstSeen ==
    {i \in 1..Len(Drawn) :
        /\ Drawn[i].group_name # None
        /\ \A j \in 1..(i - 1) : Drawn[j].group_name # Drawn[i].group_name}
GroupIdAt(i) == Unwrap(result).acc.target_lookup[Unwrap(Drawn[i].group_name)]
LoopDone == op.kind = "new" /\ result # None /\ Unwrap(result).next > Len(Drawn)

\* C26: group ids are assigned sequentially from 10 in first-seen order, all
\* lie in 10..80 (80 excluded), are distinct for distinct group names and
\* never equal a receiver id, also for many distinct group names and for a
\* group named like a receiver or like a receiver id.
C26_GroupIdsSequentialInRange ==
    LoopDone =>
        \A i \in FirstSeen :
            /\ GroupIdAt(i) = 10 + Cardinality({j \in FirstSeen : j < i})
            /\ GroupIdAt(i) < 80
            /\ GroupIdAt(i) \notin {Drawn[j].id : j \in 1..Len(Drawn)}

\* a group id is outside the group range only for a group named like a
\* receiver or a receiver id, or from the 71st group on
C26_InRangeForSeparateNames ==
    LoopDone =>
        \A i \in FirstSeen :
            (/\ Cardinality({j \in FirstSeen : j < i}) < 70
             /\ Unwrap(Drawn[i].group_name) \notin
                   UNION {{ToString(Drawn[j].id)} \cup Drawn[j].name : j \in 1..Len(Drawn)})
            => /\ GroupIdAt(i) >= 10
               /\ GroupIdAt(i) < 80
Events(log, ev) == SelectSeq(log, LAMBDA e : e.ev = ev)
OnThenOff(log) ==
    /\ Len(Events(log, "on")) <= 1
    /\ Len(Events(log, "off")) <= 1
    /\ Events(log, "off") # <<>> =>
          \E i, j \in 1..Len(log) : i < j /\ log[i].ev = "on" /\ log[j].ev = "off"

\* C27: the clip [MappingOn(m), WaitBeats(1.0), MappingOff(0), End] is
\* started at tempo 120 at time 0: the on packet is sent at the start, no
\* tick before 500 ms sends an off packet, the first tick at or after 500 ms
\* sends the off packet and leaves the clip not playing, and over the whole
\* run exactly one on and one off packet are sent, in that order.
C27_ClipWithWait ==
    [][/\ (hist = <<>> /\ hist' # <<>>) => Events(hist', "on") # <<>>
       /\ (op'.kind = "tick" /\ Elapsed < 500) => Events(hist', "off") = <<>>
       /\ (op'.kind = "tick" /\ Elapsed >= 500 /\ Events(hist, "off") = <<>>)
             => /\ Events(hist', "off") # <<>>
                /\ ~clip_state'["intro"].playing
       /\ OnThenOff(hist')]_vars

\* C27 (amended): the start sends no packet and leaves the clip playing; the
\* first tick after the start sends the on packet; no tick earlier than
\* 500 ms after that tick sends anything to the receiver; the first tick at
\* or after that time sends the off packet and leaves the clip not playing;
\* exactly one on and one off packet are sent, in that order.
FirstPlay(log) == Events(log, "on")[1].at
C27_WaitFromFirstPlay ==
    [][/\ (hist = <<>> /\ hist' # <<>>) => (sent' = <<>> /\ clip_state'["intro"].playing)
       /\ (op'.kind = "tick" /\ Events(hist, "on") = <<>>)
             => (Events(hist', "on") # <<>> /\ Events(hist', "off") = <<>>)
       /\ (op'.kind = "tick" /\ Events(hist, "on") # <<>> /\ Events(hist, "off") = <<>>)
             => IF Elapsed < FirstPlay(hist) + 500
                THEN hist' = hist
                ELSE /\ Events(hist', "off") # <<>>
                     /\ ~clip_state'["intro"].playing
       /\ OnThenOff(hist')]_vars


C27_Witness ==
    hist = <<[ev |-> "start", at |-> 0], [ev |-> "on", at |-> 250], [ev |-> "off", at |-> 750]>>
\* the ids of the mappings of a clip's MappingOn steps
EmbeddedIds(n) ==
    {Unwrap(ShowClips[n][j].m).id :
        j \in {k \in 1..Len(ShowClips[n]) : ShowClips[n][k].t = "MappingOn"}}

\* the step a playing clip executes at the next tick (None: it waits, has
\* ended or does not play)
DueStep(n) ==
    IF clip_state[n].playing /\ clip_state[n].advance_at <= now
       /\ clip_state[n].step < Len(ShowClips[n])
    THEN Some(ShowClips[n][clip_state[n].step + 1]) ELSE None

\* the three ways a step stops clip n: the runtime deactivates a clip mapping
\* of n, n executes its Stop step, another clip executes StopOther(n)
StoppedByMapping(n) ==
    \E i \in 1..Len(calls') :
        /\ calls'[i].op = "deactivate"
        /\ Source(calls'[i].id).light.kind = "Clip"
        /\ Source(calls'[i].id).light.clip = n
        /\ ~UnwrapOr(Source(calls'[i].id).one_shot, FALSE)
StoppedByStep(n) == op'.kind = "tick" /\ DueStep(n) = Some(StopStep)
StoppedByOther(n) ==
    op'.kind = "tick" /\ \E m \in ClipNames \ {n} : DueStep(m) = Some(StopOther(n))

StoppedClean(n) ==
    /\ \A id \in clip_state[n].active_mappings :
          \E i \in 1..Len(calls') : calls'[i] = [op |-> "deactivate", id |-> id]
    /\ clip_state'[n].active_mappings = {}
    /\ ~clip_state'[n].playing
    /\ clip_state'[n].step = 0
    /\ \A r \in ReceiverIds : receiver_state'[r] \notin EmbeddedIds(n)

\* C28: after a clip is stopped (by the deactivation of its clip mapping, by
\* its own Stop step or by another clip's StopOther), every mapping id that
\* was in its owned set has been deactivated through the show runtime, the
\* owned set is empty, playing is false and the step index is 0, and no
\* receiver cell is still owned by a mapping of this clip.
C28_StopReleasesEverything ==
    [][\A n \in ClipNames :
          (StoppedByMapping(n) \/ StoppedByStep(n) \/ StoppedByOther(n))
             => StoppedClean(n)]_vars


\* the off event of second's clip mapping stops second, which owns the clip
\* mapping of intro, which owns c1 on receiver B
C28_Witness ==
    /\ op = Op("Controller", 0, 21, 0)
    /\ calls = <<[op |-> "deactivate", id |-> 6], [op |-> "deactivate", id |-> 22],
                 [op |-> "deactivate", id |-> 11]>>
    /\ \E i \in 1..Len(sent) : IsOff(sent[i]) /\ sent[i].recipients = <<81>>
    /\ \A n \in {"intro", "second"} :
          clip_state[n].active_mappings = {} /\ ~clip_state[n].playing /\ clip_state[n].step = 0

\* third has executed its Stop step and turned c4 off
C28_StopStepTaken ==
    /\ op.kind = "tick"
    /\ calls = <<[op |-> "deactivate", id |-> 31]>>
    /\ ~clip_state["third"].playing /\ clip_state["third"].step = 0

\* second has executed StopOther(intro) while intro owned c1
C28_StopOtherTaken ==
    /\ op.kind = "tick"
    /\ \E i \in 1..Len(calls) : calls[i] = [op |-> "deactivate", id |-> 11]
    /\ ~clip_state["second"].playing /\ clip_state["second"].step = 4
    /\ ~clip_state["intro"].playing /\ clip_state["intro"].step = 0

\* a controller event whose only call is the activation of clip mapping id
StartsClip(id) ==
    /\ op'.kind = "Controller"
    /\ calls' = <<[op |-> "activate", id |-> id]>>
    /\ Source(id).light.kind = "Clip"
Started(id) ==
    LET clip == clip_state'[Source(id).light.clip]
    IN /\ clip.playing
       /\ clip.step = 0
       /\ clip.advance_at = now
       /\ clip.tempo = UnwrapOr(Source(id).tempo, 120)
       /\ clip.override_color =
             IF UnwrapOr(Source(id).override_clip_color, FALSE)
             THEN Some(ShowColors[Source(id).color]) ELSE None

\* C29: start(name, override_color, tempo) puts the clip in the state playing,
\* step index 0, advance_at = now, tempo and override color as given, and
\* owned set empty, whatever state the clip was in before.
C29_StartResets ==
    [][\A id \in MappingIds :
          StartsClip(id) =>
             /\ Started(id)
             /\ clip_state'[Source(id).light.clip].active_mappings = {}]_vars

\* C29 (amended): start puts the clip in the state playing, step index 0,
\* advance_at = now, tempo and override color as given, and leaves the owned
\* set as it was.
C29_StartKeepsOwned ==
    [][\A id \in MappingIds :
          StartsClip(id) =>
             /\ Started(id)
             /\ clip_state'[Source(id).light.clip].active_mappings
                    = clip_state[Source(id).light.clip].active_mappings]_vars

\* intro has been started again while it played and owned c1
C29_Witness ==
    /\ op = Op("Controller", 0, 20, 127)
    /\ clip_state["intro"].playing /\ clip_state["intro"].step = 0
    /\ clip_state["intro"].advance_at = now
    /\ clip_state["intro"].active_mappings = {11}
    /\ receiver_state[81] = 11

\* the ids a clip can own: those of its MappingOn steps that are not one-shot
Ownable(n) == {id \in EmbeddedIds(n) : ~UnwrapOr(Source(id).one_shot, FALSE)}

\* the owned set after the steps j..k of clip n, executed in order
RECURSIVE AfterSteps(_, _, _, _)
AfterSteps(owned, n, j, k) ==
    IF j > k THEN owned
    ELSE LET step == ShowClips[n][j + 1]
         IN AfterSteps(
                CASE step.t = "MappingOn" ->
                        IF UnwrapOr(Unwrap(step.m).one_shot, FALSE) THEN owned
                        ELSE owned \cup {Unwrap(step.m).id}
                  [] step.t = "MappingOff" /\ ShowClips[n][step.index + 1].t = "MappingOn" ->
                        owned \ {Unwrap(ShowClips[n][step.index + 1].m).id}
                  [] OTHER -> owned,
                n, j + 1, k)

\* the call a MappingOn or MappingOff step makes on the show runtime
StepCalled(n, j) ==
    LET step == ShowClips[n][j + 1]
    IN CASE step.t = "MappingOn" ->
               \E i \in 1..Len(calls') : calls'[i] = [op |-> "activate", id |-> Unwrap(step.m).id]
         [] step.t = "MappingOff" /\ ShowClips[n][step.index + 1].t = "MappingOn" ->
               \E i \in 1..Len(calls') :
                  calls'[i] = [op |-> "deactivate",
                               id |-> Unwrap(ShowClips[n][step.index + 1].m).id]
         [] OTHER -> TRUE

\* a tick in which clip n executes the steps from its step index up to the
\* one before its new step index, and is not stopped by another clip
PlaysOn(n) ==
    /\ op'.kind = "tick"
    /\ DueStep(n) # None
    /\ clip_state'[n].step > clip_state[n].step
    /\ ~StoppedByOther(n)

\* C30: a clip's owned set is maintained step by step: MappingOn(m) activates
\* m and adds its id exactly when m is not one_shot, MappingOff(i) for a
\* MappingOn(m) at step i deactivates m and removes its id; so the owned set
\* holds only ids of non-one-shot MappingOn steps of the same clip.
C30_OwnedSetStepByStep ==
    [][\A n \in ClipNames :
          /\ clip_state'[n].active_mappings \subseteq Ownable(n)
          /\ PlaysOn(n) =>
                /\ \A j \in clip_state[n].step..(clip_state'[n].step - 1) : StepCalled(n, j)
                /\ clip_state'[n].active_mappings =
                      AfterSteps(clip_state[n].active_mappings, n, clip_state[n].step,
                                 clip_state'[n].step - 1)]_vars

\* second has executed MappingOn(c2), a one-shot, and MappingOn(c3)
C30_Witness ==
    /\ op.kind = "tick"
    /\ calls = <<[op |-> "activate", id |-> 21], [op |-> "activate", id |-> 22]>>
    /\ clip_state["second"].step = 3
    /\ clip_state["second"].active_mappings = {22}
\* C40: the sustain byte 255 (hold until off) is produced by the sustain
\* encoding only for 0 ms: no non-zero sustain duration encodes to 255.
C40_HoldOnlyForZero ==
    (op.kind = "duration" /\ result # None) =>
        /\ Encoded.sustain[1] = 255 => op.a = 0
        /\ Encoded.sustain[2] = 255 => op.b = 0

\* the same below 127 s, where the 7-bit field of the seconds band is not yet full
C40_HoldOnlyForZeroBelowTheFullField ==
    (op.kind = "duration" /\ result # None) =>
        /\ (op.a < 127000 /\ Encoded.sustain[1] = 255) => op.a = 0
        /\ (op.b < 127000 /\ Encoded.sustain[2] = 255) => op.b = 0

\* clip n executes step `kind` at the next tick, and no other clip plays
Alone(n) == \A k \in ClipNames \ {n} : ~clip_state[k].playing
DueKind(n, kind) == DueStep(n) # None /\ Unwrap(DueStep(n)).t = kind
DueIndex(n) == Unwrap(DueStep(n)).index

\* step i of clip n is not a MappingOn step: another kind of step, or no step
NotMappingOn(n, i) == i >= Len(ShowClips[n]) \/ ShowClips[n][i + 1].t # "MappingOn"

\* the tick left packets, receiver cells and owned sets alone, and clip n
\* went on to a later step and still plays
Skipped(n) ==
    /\ status' = "running"
    /\ sent' = <<>>
    /\ receiver_state' = receiver_state
    /\ \A k \in ClipNames : clip_state'[k].active_mappings = clip_state[k].active_mappings
    /\ clip_state'[n].playing
    /\ clip_state'[n].step > clip_state[n].step

\* C33: a MappingOff(i) whose step i is not a MappingOn step (another kind of
\* step, or no step at all) is skipped: no packet, no change of a receiver
\* cell or an owned set, and the clip advances and keeps playing.
C33_MappingOffSkipped ==
    [][\A n \in ClipNames :
          (op'.kind = "tick" /\ Alone(n) /\ DueKind(n, "MappingOff")
             /\ NotMappingOn(n, DueIndex(n)))
          => Skipped(n)]_vars

\* the same for an index that names a step of the clip
C33_StepOfAnotherKindSkipped ==
    [][\A n \in ClipNames :
          (op'.kind = "tick" /\ Alone(n) /\ DueKind(n, "MappingOff")
             /\ DueIndex(n) < Len(ShowClips[n]) /\ NotMappingOn(n, DueIndex(n)))
          => Skipped(n)]_vars

\* offs has skipped its MappingOff(1) and waits before its last step
C33_SkipTaken ==
    /\ op.kind = "tick"
    /\ sent = <<>>
    /\ clip_state["offs"].playing
    /\ clip_state["offs"].step = 4
    /\ clip_state["offs"].active_mappings = {41}
    /\ receiver_state[82] = 41

\* C34: a StopOther(name) that names no clip has no effect on any clip,
\* receiver or packet, fails nothing, and the executing clip advances.
C34_StopOtherUnknownIgnored ==
    [][\A n \in ClipNames :
          (op'.kind = "tick" /\ Alone(n) /\ DueKind(n, "StopOther")
             /\ Unwrap(DueStep(n)).name \notin ClipNames)
          => /\ status' = "running"
             /\ result' = "ok"
             /\ sent' = <<>>
             /\ receiver_state' = receiver_state
             /\ \A k \in ClipNames \ {n} : clip_state'[k] = clip_state[k]
             /\ clip_state'[n].step > clip_state[n].step]_vars

\* C35: no operation asks for exclusive access to a clip runtime that is
\* exclusively borrowed already, also when a playing clip executes StopOther
\* naming itself or starts or stops, through a clip mapping, the clip that
\* is being played.
C35_NoBorrowAcrossCallback ==
    \A i \in 1..Len(calls) : calls[i].op # "BorrowMutError"

\* C36: every call of tick returns: play executes finitely many steps, also
\* for clips with Loop steps and zero-length waits.
C36_TickTerminates == status # "hang"

\* C37: after a tick, a clip that is playing has a step index that names
\* one of its steps.
C37_PlayingClipHasAStep ==
    (op.kind = "tick" /\ status = "running") =>
        \A n \in ClipNames :
            clip_state[n].playing => clip_state[n].step < Len(ShowClips[n])

\* C38: pending_off is empty whenever sustain is inactive, also after a radio
\* send has failed part-way through the flush on sustain release.
C38_PendingOnlyUnderSustain == ~sustain => pending_off = <<>>

\* the same while no flush has failed: the buffer outlives the pedal only
\* in the state a failed release leaves, and until the next release that
\* succeeds
C38_PendingOutlivesFailedFlushOnly ==
    [][(~sustain' /\ pending_off' # <<>>) =>
          \/ op' = Op("Controller", 0, SUSTAIN_CONTROLLER, 0) /\ result' = "err"
          \/ (~sustain /\ pending_off' = pending_off)]_vars

\* the release of the pedal has turned m1 off and failed on m2: both are
\* still buffered
C38_FlushFailedPartWay ==
    /\ op = Op("Controller", 0, SUSTAIN_CONTROLLER, 0)
    /\ result = "err"
    /\ ~sustain
    /\ pending_off = <<1, 2>>
    /\ Len(sent) = 1 /\ IsOff(sent[1])

\* the receivers a mapping owns
Owned(id) == {r \in ReceiverIds : receiver_state[r] = id}

\* a direct call made while the radio fails every send
FailingCall(what, id) == fail_in = 0 /\ fail_in' = 0 /\ op' = Op(what, id, 0, 0)

NothingMarked ==
    /\ result' = "err"
    /\ sent' = <<>>
    /\ receiver_state' = receiver_state
    /\ last_effect' = last_effect

\* C39: when the radio send fails inside activate(m) or deactivate(m) of an
\* effect mapping, the call returns the error and leaves every receiver
\* cell's trigger_mapping and last_effect as they were, so that a later
\* deactivate(m) still finds the receivers m owns and turns them off.
C39_FailedSendChangesNothing ==
    [][\A id \in {1, 2} :
          /\ FailingCall("activate", id) => NothingMarked
          /\ (FailingCall("deactivate", id) /\ Owned(id) # {}) => NothingMarked
          /\ (op' = Op("deactivate", id, 0, 0) /\ fail_in = NoFail /\ fail_in' = NoFail
                /\ Owned(id) # {})
                => /\ result' = "ok"
                   /\ \E i \in 1..Len(sent') :
                         /\ IsOff(sent'[i])
                         /\ \/ SeqToSet(sent'[i].recipients) = Owned(id)
                            \/ sent'[i].recipients = Meta(order.receivers, id).targets
                   /\ \A r \in Owned(id) : receiver_state'[r] = INACTIVE]_vars

\* deactivate(m1) failed with m1 owning both receivers of its group, some time
\* after m1 was activated; the radio recovered and the next deactivate(m1)
\* turned them off
C39_Witness ==
    /\ hist = << [op |-> "deactivate", id |-> 1, res |-> "err"],
                 [op |-> "deactivate", id |-> 1, res |-> "ok"] >>
    /\ op = Op("deactivate", 1, 0, 0)
    /\ Len(sent) = 1 /\ IsOff(sent[1])
    /\ receiver_state[80] = INACTIVE /\ receiver_state[81] = INACTIVE
    /\ fail_in = NoFail

\* activate(m1) has failed some time after the runtime was built
C39_ActivateFailed ==
    /\ hist # <<>> /\ hist[Len(hist)] = [op |-> "activate", id |-> 1, res |-> "err"]
    /\ op = Op("activate", 1, 0, 0)
    /\ last_effect < 0
    /\ receiver_state[80] = INACTIVE

\* the mapping ids the clip steps of the next tick deactivate: the mapping a
\* due MappingOff points at, and what a clip owns that its own Stop step or
\* another clip's StopOther step stops
StepOffs ==
    {id \in MappingIds :
        \E n \in ClipNames :
            \/ /\ DueKind(n, "MappingOff")
               /\ ~NotMappingOn(n, DueIndex(n))
               /\ id = Unwrap(ShowClips[n][DueIndex(n) + 1].m).id
            \/ /\ StoppedByStep(n) \/ StoppedByOther(n)
               /\ id \in clip_state[n].active_mappings}

\* no effect activated in this step reaches a receiver that mapping id owns
Undisturbed(id) ==
    \A i \in 1..Len(calls') :
        (calls'[i].op = "activate" /\ IsEffect(calls'[i].id))
            => TargetedReceivers(calls'[i].id) \cap Owned(id) = {}

\* mapping id is turned off within this step: deactivate was called, and if
\* it is an effect mapping that owned receivers (and kept them until its
\* turn), their off packet is among the packets sent and no cell is owned
\* by it any more
ReleasedNow(id) ==
    /\ \E i \in 1..Len(calls') : calls'[i] = [op |-> "deactivate", id |-> id]
    /\ \A r \in ReceiverIds : receiver_state'[r] # id
    /\ (IsEffect(id) /\ ~OneShot(id) /\ Owned(id) # {} /\ Undisturbed(id)) =>
          /\ \E i \in 1..Len(sent') :
                /\ IsOff(sent'[i])
                /\ \/ SeqToSet(sent'[i].recipients) = Owned(id)
                   \/ sent'[i].recipients = Meta(order.receivers, id).targets

\* C32: deactivations issued by clip steps (MappingOff, Stop, StopOther)
\* while sustain is active are never buffered: the tick that executes the
\* step appends nothing to pending_off, and sends the off packet and updates
\* the receiver cells itself.
C32_ClipOffsNotBuffered ==
    [][(op'.kind = "tick" /\ sustain) =>
          /\ pending_off' = pending_off
          /\ \A id \in StepOffs : ReleasedNow(id)]_vars

\* with the pedal down and the off event of intro's clip mapping held back,
\* intro's MappingOff step has turned c1 off on receiver B
C32_Witness ==
    /\ op.kind = "tick"
    /\ sustain
    /\ pending_off = <<4>>
    /\ calls = <<[op |-> "deactivate", id |-> 11]>>
    /\ sent = <<OffTo(<<81>>)>>
    /\ receiver_state[81] = INACTIVE

\* with the pedal down, third's Stop step has turned c4 off
C32_StopUnderPedal ==
    /\ op.kind = "tick"
    /\ sustain
    /\ calls = <<[op |-> "deactivate", id |-> 31]>>
    /\ sent = <<OffTo(<<82>>)>>
    /\ ~clip_state["third"].playing

\* with the pedal down, second's StopOther step has stopped intro and turned c1 off
C32_StopOtherUnderPedal ==
    /\ op.kind = "tick"
    /\ sustain
    /\ calls = <<[op |-> "deactivate", id |-> 11]>>
    /\ pending_off = <<>>
    /\ clip_state["second"].step = 4
    /\ ~clip_state["intro"].playing /\ clip_state["intro"].step = 0

\* the clips a tick leaves waiting for a later instant, and the time until
\* the first of them goes on (None: no clip waits)
Waiting ==
    {n \in ClipNames : /\ clip_state'[n].playing
                       /\ clip_state'[n].step < Len(ShowClips[n])
                       /\ clip_state'[n].advance_at > now}
EarliestWaiting ==
    IF Waiting = {} THEN None
    ELSE Some(clip_state'[CHOOSE n \in Waiting :
                             \A k \in Waiting :
                                clip_state'[n].advance_at <= clip_state'[k].advance_at]
                 .advance_at - now)

\* clip n is started by a clip mapping during this step
StartedByMapping(n) ==
    \E i \in 1..Len(calls') :
        /\ calls'[i].op = "activate"
        /\ Source(calls'[i].id).light.kind = "Clip"
        /\ Source(calls'[i].id).light.clip = n

\* the steps of clip n that call the show runtime, and the call they make
Calling(n, j) ==
    \/ ShowClips[n][j + 1].t = "MappingOn"
    \/ ShowClips[n][j + 1].t = "MappingOff" /\ ~NotMappingOn(n, ShowClips[n][j + 1].index)
CallOf(n, j) ==
    LET step == ShowClips[n][j + 1]
    IN IF step.t = "MappingOn" THEN [op |-> "activate", id |-> Unwrap(step.m).id]
       ELSE [op |-> "deactivate", id |-> Unwrap(ShowClips[n][step.index + 1].m).id]

\* the steps clip n executes in this tick are the ones from its step index
\* on, and their calls are made in the order of the steps
InIndexOrder(n) ==
    \A j, k \in clip_state[n].step..(clip_state'[n].step - 1) :
        (j < k /\ Calling(n, j) /\ Calling(n, k)) =>
            \E p, q \in 1..Len(calls') :
                p < q /\ calls'[p] = CallOf(n, j) /\ calls'[q] = CallOf(n, k)

\* a clip that waits for a later instant, and that no step of this tick
\* starts or stops, is left as it is
NeverEarly(n) ==
    (/\ clip_state[n].playing
     /\ clip_state[n].advance_at > now
     /\ ~StartedByMapping(n) /\ ~StoppedByMapping(n) /\ ~StoppedByOther(n))
    => clip_state'[n] = clip_state[n]

\* C31: play_clips executes the steps of each playing clip in index order,
\* executes no step of a clip whose advance_at is later than now, and
\* returns the earliest advance_at among the clips it leaves waiting, or
\* nothing when no clip is waiting (tick turns what it returns into the
\* duration min(period, advance_at - now)).
C31_PlayClipsInOrderAndEarliest ==
    [][(op'.kind = "tick" /\ status' = "running") =>
          /\ \A n \in ClipNames : PlaysOn(n) => InIndexOrder(n)
          /\ \A n \in ClipNames : NeverEarly(n)
          /\ wake' = Some(Min(config.lights_out_period,
                              UnwrapOr(EarliestWaiting, config.lights_out_period)))]_vars

\* the first two parts on their own
C31_InOrderAndNeverEarly ==
    [][(op'.kind = "tick" /\ status' = "running") =>
          /\ \A n \in ClipNames : PlaysOn(n) => InIndexOrder(n)
          /\ \A n \in ClipNames : NeverEarly(n)]_vars

\* a tick has returned the advance_at of a clip that it stopped: intro
\* waited for its second step when second's StopOther stopped it
C31_StoppedClipReturned ==
    /\ op.kind = "tick"
    /\ wake = Some(500)
    /\ \A n \in ClipNames : ~clip_state[n].playing

====
